---- MODULE Spec2Model ----
(***************************************************************************)
(* Model of the sandboxed shell execution service (sos).                   *)
(*                                                                         *)
(*   Spec      the registry, the admission semaphore, the per-sandbox      *)
(*             locks, the request handlers of src/lib/http.rs and the     *)
(*             idle reaper of src/cli/main.rs, each split at the points   *)
(*             where it can be suspended.                                  *)
(*   SessSpec  one started sandbox and its interactive shell: the marker   *)
(*             protocol of Sandbox::exec_session_cmd and the reader of     *)
(*             src/lib/sandbox/io.rs, with the shell's output chunked and  *)
(*             timed in every possible way.                                *)
(***************************************************************************)
EXTENDS Integers, Sequences, FiniteSets, TLC

\* ------------------------------------------------------------------ bounds
NumSandboxes == 2
NumTasks == 2
MaxTrajectory == 2
MaxRequests == 4

\* Largest capacity the admission semaphore is configured with.
MaxConcurrent == 2

Ids == 1..NumSandboxes
Tasks == 1..NumTasks
NoTask == 0
NoCid == 0

\* An id the service never issued.
Unknown == 0

\* The reaper task, as the owner of a sandbox's lock.
Reaper == NumTasks + 1

\* ------------------------------------------------------------------- state
VARIABLES
    max_sandboxes, \* serve_command's parameter: the capacity of the semaphore
    sandboxes,    \* SoSState.sandboxes: the ids in the registry map
    sb,           \* the Sandbox behind each id (fields of struct Sandbox)
    minted,       \* ids already produced by Uuid::new_v4
    semaphore,    \* SoSState.semaphore: number of available permits
    lock,         \* holder of each sandbox's tokio Mutex (NoTask = free)
    containers,   \* container host: state of each container, by container id
    pc,           \* position of each request task inside its handler
    op,           \* the request each task is serving
    holds,        \* the task owns an OwnedSemaphorePermit not yet stored
    attempts,     \* create_and_start_container: `attempts` of the inspect loop
    snap,         \* list_sandboxes: the cloned Arcs still to be read
    infos,        \* list_sandboxes: the SandboxInfo values collected so far
    resp,         \* the response sent by the step just taken, if any
    nreq,         \* number of requests received so far
    removedDone,  \* ids for which a stop with remove=true has returned
    stdin,        \* bytes written to the shell's stdin and not yet read by it
    bash,         \* the interactive shell: $?, cwd, open quote and its text, sleep
    channel,      \* bytes forwarded from the attach stream and not yet read
    rd,           \* the exec_session_cmd in progress and its read loop
    calls,        \* every exec call so far, with what the shell really did
    units,        \* number of input lines written to stdin so far
    reaper        \* the idle reaper task of serve_command: position and locals

lifeVars == <<max_sandboxes, sandboxes, minted, semaphore, lock, containers,
              pc, op, holds, attempts, snap, infos, resp, nreq, removedDone,
              reaper>>

sessVars == <<stdin, bash, channel, rd, calls, units>>

vars == <<max_sandboxes, sandboxes, sb, minted, semaphore, lock, containers, pc, op, holds,
          attempts, snap, infos, resp, nreq, removedDone, stdin, bash, channel, rd,
          calls, units, reaper>>

\* --------------------------------------------------------- types.rs: Status
Created == [tag |-> "Created", cid |-> NoCid]
Started(c) == [tag |-> "Started", cid |-> c]
Exited(c) == [tag |-> "Exited", cid |-> c]
Stopped == [tag |-> "Stopped", cid |-> NoCid]

StatusToString_started(st) ==
    IF st.tag \in {"Created", "Started"} THEN "started"
    ELSE IF st.tag = "Exited" THEN "exited" ELSE "stopped"

\* impl Display for Status
StatusToString(st) ==
    CASE st.tag = "Created" -> "created"
      [] st.tag = "Started" -> "started"
      [] st.tag = "Exited" -> "exited"
      [] st.tag = "Stopped" -> "stopped"

\* Sandbox::new. Option fields are sequences: <<>> is None, <<x>> is Some(x).
SandboxNew ==
    [status |-> Created,
     permit |-> FALSE,
     input |-> FALSE,
     output_receiver |-> FALSE,
     start_time |-> FALSE,
     trajectory |-> <<>>,
     last_standalone_exit_code |-> <<>>]

to_status_code_without_timeout_arm(err) ==
    IF err \in {"NotStarted", "AlreadyStarted", "AlreadyExited",
                "SetupCommandsFailed", "PullImageFailed",
                "StopContainerFailed"}
    THEN 400 ELSE 500

\* SandboxError::to_status_code; 200 and 404 are produced by the handlers.
to_status_code(err) ==
    CASE err = "NotStarted" -> 400
      [] err = "AlreadyStarted" -> 400
      [] err = "AlreadyExited" -> 400
      [] err = "SetupCommandsFailed" -> 400
      [] err = "PullImageFailed" -> 400
      [] err = "StopContainerFailed" -> 400
      [] err = "StartContainerFailed" -> 500
      [] err = "ContainerWriteFailed" -> 500
      [] err = "ContainerReadFailed" -> 500
      [] err = "ExecFailed" -> 500
      [] err = "CreateExecFailed" -> 500
      [] err = "TimeoutWaitingForMarker" -> 504

Ok(body) == [code |-> 200, err |-> "", body |-> body]
Err(e) == [code |-> to_status_code(e), err |-> e, body |-> <<>>]
NotFound_asBadRequest == [code |-> 400, err |-> "NotFound", body |-> <<>>]

\* http.rs 113: ok_or((StatusCode::NOT_FOUND, "Sandbox not found"))
NotFound == [code |-> 404, err |-> "NotFound", body |-> <<>>]

\* A handler whose task panics writes no response: the connection is closed.
Panicked == [code |-> 0, err |-> "panicked", body |-> <<>>]

NoOp == [kind |-> "none", id |-> 0, flag |-> FALSE]
NoResp == [task |-> NoTask, op |-> NoOp, code |-> 0, err |-> "", body |-> <<>>]

Running == {c \in DOMAIN containers : containers[c] = "running"}

\* The bash process right after start: $? = 0, in the image's directory.
FreshShell ==
    [status |-> 0, cwd |-> "/", open |-> FALSE, sleeping |-> FALSE,
     busy |-> 0, unit |-> 0, gone |-> FALSE, printing |-> FALSE,
     eof |-> FALSE, quoted |-> <<>>]

\* The bash process has ended (killed in the container): the attach stream
\* is at its end and nothing reads stdin any more.
DeadShell == [FreshShell EXCEPT !.gone = TRUE]

NoRead ==
    [pc |-> "none", n |-> 0, attempt |-> 0, accumulated |-> <<>>,
     markers_seen |-> 0, last_count |-> 0, elapsed |-> 0]

\* The reaper before its first pass: asleep, holding nothing.
NoReaper ==
    [pc |-> "sleep", todo |-> <<>>, to_remove |-> <<>>, cur |-> Unknown,
     passes |-> 0]

SessInit ==
    /\ stdin = <<>>
    /\ bash = FreshShell
    /\ channel = <<>>
    /\ rd = NoRead
    /\ calls = <<>>
    /\ units = 0

\* -------------------------------------------------------------------- Init
\* main.rs 146-161: the server is started with a capacity of one permit or
\* more; the registry is empty and every permit is available.
Init ==
    /\ max_sandboxes \in 1..MaxConcurrent
    /\ sandboxes = {}
    /\ sb = [s \in Ids |-> SandboxNew]
    /\ minted = {}
    /\ semaphore = max_sandboxes
    /\ lock = [s \in Ids |-> NoTask]
    /\ containers = <<>>
    /\ pc = [t \in Tasks |-> "idle"]
    /\ op = [t \in Tasks |-> NoOp]
    /\ holds = [t \in Tasks |-> FALSE]
    /\ attempts = [t \in Tasks |-> 0]
    /\ snap = [t \in Tasks |-> {}]
    /\ infos = [t \in Tasks |-> {}]
    /\ resp = NoResp
    /\ nreq = 0
    /\ removedDone = {}
    /\ reaper = NoReaper
    /\ SessInit

\* A request arrives at the router and is handed to a task.
Kinds == {"create", "start", "exec", "stop", "trajectory", "formatted", "list"}

FirstPc(kind) ==
    CASE kind = "create" -> "create"
      [] kind = "start" -> "start_acquire"
      [] kind = "exec" -> "exec_get"
      [] kind = "stop" -> "stop_get"
      [] kind = "trajectory" -> "traj_get"
      [] kind = "formatted" -> "fmt_get"
      [] kind = "list" -> "list_snapshot"

\* Idle tasks are interchangeable: the lowest idle one takes the request.
\* A client names an id it got from create_sandbox, or one never issued.
\* No more sandboxes are asked for than the model has ids, and no more
\* session commands are sent to a sandbox than MaxTrajectory.
Request(t) ==
    /\ pc[t] = "idle"
    /\ \A u \in Tasks : u < t => pc[u] # "idle"
    /\ nreq < MaxRequests
    /\ nreq' = nreq + 1
    /\ \E kind \in Kinds, id \in minted \cup {Unknown}, flag \in BOOLEAN :
          /\ kind \in {"create", "list", "start", "trajectory", "formatted"}
                => ~flag
          /\ kind \in {"create", "list"} => id = Unknown
          /\ kind = "create" =>
                Cardinality(minted)
                    + Cardinality({u \in Tasks : pc[u] = "create"})
                  < NumSandboxes
          /\ (kind = "exec" /\ ~flag /\ id # Unknown) =>
                Len(sb[id].trajectory)
                    + Cardinality({u \in Tasks :
                                      /\ pc[u] # "idle"
                                      /\ op[u].kind = "exec"
                                      /\ ~op[u].flag
                                      /\ op[u].id = id})
                  < MaxTrajectory
          /\ op' = [op EXCEPT ![t] = [kind |-> kind, id |-> id, flag |-> flag]]
          /\ pc' = [pc EXCEPT ![t] = FirstPc(kind)]
    /\ resp' = NoResp
    /\ UNCHANGED <<sandboxes, sb, minted, semaphore, lock, containers, holds, snap, infos, removedDone>>
    /\ UNCHANGED sessVars
    /\ UNCHANGED <<reaper, max_sandboxes, attempts>>

\* The handler returns: the response is sent and the task is free again.
\* Its locals are gone.
Finish(t, r) ==
    /\ pc' = [pc EXCEPT ![t] = "idle"]
    /\ attempts' = [attempts EXCEPT ![t] = 0]
    /\ op' = [op EXCEPT ![t] = NoOp]
    /\ nreq' = nreq
    /\ resp' = [task |-> t, op |-> op[t], code |-> r.code, err |-> r.err,
                body |-> r.body]
    /\ removedDone' =
          IF op[t].kind = "stop" /\ op[t].flag /\ op[t].id \in minted
          THEN removedDone \cup {op[t].id} ELSE removedDone
    /\ UNCHANGED sessVars
    /\ UNCHANGED <<reaper, max_sandboxes>>

\* The task goes on to position p of its handler. The counter of the
\* inspect loop lives inside the loop only (mod.rs 186: it starts at 0).
Goto(t, p) ==
    /\ pc' = [pc EXCEPT ![t] = p]
    /\ attempts' = [attempts EXCEPT ![t] = 0]
    /\ resp' = NoResp
    /\ UNCHANGED <<op, nreq, removedDone>>
    /\ UNCHANGED sessVars
    /\ UNCHANGED <<reaper, max_sandboxes>>

\* --------------------------------------------------- registry and Arc count
\* state.sandboxes.lock().await: the handlers hold the registry's mutex for
\* one step; the reaper holds it for the whole of its scan (main.rs 171-182).
RegistryFree == reaper.pc # "scan"

\* The positions of a handler at which it owns a clone of its sandbox's Arc.
ClonePcs ==
    {"start_lock", "start_create", "start_run", "start_inspect", "start_setup",
     "start_attach", "start_configure", "exec_session", "exec_session_read", "exec_standalone",
     "exec_standalone_run", "stop_lock", "stop_remove", "traj_read",
     "fmt_read"}

\* The sandboxes whose Arc task t owns a clone of (list_sandboxes keeps its
\* Vec of Arcs until it returns).
Held(t) ==
    IF pc[t] = "list_read"
    THEN snap[t] \cup {i.id : i \in infos[t]}
    ELSE IF pc[t] \in ClonePcs THEN {op[t].id} ELSE {}

ReaperHeld ==
    IF reaper.pc \in {"reap_lock", "reap_remove"} THEN {reaper.cur} ELSE {}

\* The sandboxes that still exist: in the registry, or out of it with a
\* clone of their Arc in the hands of a handler or of the reaper.
Alive == {s \in Ids : \/ s \in sandboxes
                      \/ \E t \in Tasks : s \in Held(t)
                      \/ s \in ReaperHeld}

\* Owner `who` (a task, or the reaper) has the last clone of the Arc of
\* sandbox s: the registry has no entry for s and nobody else a clone.
LastArc(who, s) ==
    /\ s \notin sandboxes
    /\ \A u \in Tasks \ {who} : s \notin Held(u)
    /\ who # Reaper => s \notin ReaperHeld

\* impl Drop: a Sandbox is dropped with the last clone of its Arc, and the
\* permit it stores goes back to the semaphore. The permits released when
\* owner `who` lets go of the sandboxes in `arcs`.
\* The record of a dropped sandbox is no longer read.
ArcDrop(who, arcs) ==
    Cardinality({s \in arcs : sb[s].permit /\ LastArc(who, s)})

\* Task t returns and lets go of the Arcs it owns.
Release(t) == semaphore' = semaphore + ArcDrop(t, Held(t))

\* ------------------------------------------------------ the sandbox's mutex
MutexLock_none(t, s) == lock' = lock

\* sandbox_arc.lock().await (http.rs 117, 155, 199): the task waits until
\* the sandbox's mutex is free and then owns the guard.
MutexLock(t, s) == lock[s] = NoTask /\ lock' = [lock EXCEPT ![s] = t]

MutexUnlock_keep(t, s) == lock[s] = t /\ lock' = lock

\* The guard goes out of scope when the handler returns.
MutexUnlock(t, s) == lock[s] = t /\ lock' = [lock EXCEPT ![s] = NoTask]

\* ----------------------------------------------------------- create_sandbox
\* Sandbox::new: a fresh id, never one that was handed out before.
Uuid_new_v4 == CHOOSE id \in Ids \ minted : \A j \in Ids \ minted : id <= j

create_sandbox(t) ==
    /\ pc[t] = "create"
    /\ RegistryFree
    /\ Ids \ minted # {}
    /\ LET id == Uuid_new_v4 IN
          /\ minted' = minted \cup {id}
          /\ sandboxes' = sandboxes \cup {id}
          /\ sb' = [sb EXCEPT ![id] = SandboxNew]
          /\ Finish(t, Ok(<<id>>))
    /\ UNCHANGED <<semaphore, lock, containers, holds, snap, infos>>

\* ------------------------------------------------------------ start_sandbox
\* http.rs 101-106: the permit is acquired first; the task waits while none
\* is available.
start_sandbox_acquire(t) ==
    /\ pc[t] = "start_acquire"
    /\ semaphore > 0
    /\ semaphore' = semaphore - 1
    /\ holds' = [holds EXCEPT ![t] = TRUE]
    /\ Goto(t, "start_get")
    /\ UNCHANGED <<sandboxes, sb, minted, lock, containers, snap, infos>>

DropPermit_leak(t) ==
    /\ semaphore' = semaphore
    /\ holds' = [holds EXCEPT ![t] = FALSE]

\* A handler that owns a permit returns: the permit is dropped.
DropPermit(t) ==
    /\ semaphore' = (IF holds[t] THEN semaphore + 1 ELSE semaphore)
                        + ArcDrop(t, Held(t))
    /\ holds' = [holds EXCEPT ![t] = FALSE]

\* http.rs 108-114: registry lookup.
start_sandbox_get(t) ==
    /\ pc[t] = "start_get"
    /\ RegistryFree
    /\ IF op[t].id \in sandboxes
       THEN /\ Goto(t, "start_lock")
            /\ UNCHANGED <<semaphore, holds>>
       ELSE /\ DropPermit(t)
            /\ Finish(t, NotFound)
    /\ UNCHANGED <<sandboxes, sb, minted, lock, containers, snap, infos>>

\* Sandbox::start returns an error: `permit` goes out of scope, the guard is
\* released, the handler maps the error.
StartFail(t, e) ==
    /\ DropPermit(t)
    /\ lock' = [lock EXCEPT ![op[t].id] = NoTask]
    /\ Finish(t, Err(e))

\* Sandbox::start panics: the task unwinds, `permit` and the guard are
\* dropped and no response is written.
StartAbort(t) ==
    /\ DropPermit(t)
    /\ lock' = [lock EXCEPT ![op[t].id] = NoTask]
    /\ Finish(t, Panicked)

StartAccepts_unlessStarted(st) == st.tag # "Started"

StartAccepts_restart(st) == st.tag \in {"Created", "Stopped"}

\* mod.rs 110: matches!(self.status, SandboxStatus::Created)
StartAccepts(st) == st.tag = "Created"

\* http.rs 117-119 and mod.rs 110-112: lock the sandbox and check the
\* status; the guard is kept while Sandbox::start goes on.
Sandbox_start(t) ==
    /\ pc[t] = "start_lock"
    /\ IF StartAccepts(sb[op[t].id].status)
       THEN /\ MutexLock(t, op[t].id)
            /\ Goto(t, "start_create")
            /\ UNCHANGED <<semaphore, holds>>
       ELSE /\ lock[op[t].id] = NoTask
            /\ StartFail(t, "AlreadyStarted")
    /\ UNCHANGED <<sandboxes, sb, minted, containers, snap, infos>>

\* mod.rs 114 and 126-146, 149-176: pull_image_if_missing (the image is
\* there, is pulled, or the pull fails), then create_container fails, or
\* the container is created and status = Started(id).
create_and_start_container(t) ==
    /\ pc[t] = "start_create"
    /\ LET c == Len(containers) + 1 IN
       \E r \in {"pull_failed", "create_failed", "created"} :
          CASE r = "pull_failed" ->
                  /\ StartFail(t, "PullImageFailed")
                  /\ UNCHANGED <<containers, sb>>
            [] r = "create_failed" ->
                  /\ StartFail(t, "StartContainerFailed")
                  /\ UNCHANGED <<containers, sb>>
            [] r = "created" ->
                  /\ sb' = [sb EXCEPT ![op[t].id].status = Started(c)]
                  /\ containers' = Append(containers, "created")
                  /\ Goto(t, "start_run")
                  /\ UNCHANGED <<semaphore, holds, lock>>
    /\ UNCHANGED <<sandboxes, minted, snap, infos>>

\* mod.rs 178-185: start_container is refused, or the host starts the
\* container, whose process runs or ends at once.
start_container(t) ==
    /\ pc[t] = "start_run"
    /\ LET c == sb[op[t].id].status.cid IN
       \E r \in {"refused", "running", "exited"} :
          IF r = "refused"
          THEN /\ StartFail(t, "StartContainerFailed")
               /\ UNCHANGED containers
          ELSE /\ containers' = [containers EXCEPT ![c] = r]
               /\ Goto(t, "start_inspect")
               /\ UNCHANGED <<semaphore, holds, lock>>
    /\ UNCHANGED <<sandboxes, sb, minted, snap, infos>>

\* mod.rs 187
max_attempts == 6

\* mod.rs 186-254, one turn of the loop: inspect_container fails; or the
\* host reports the container running and the loop ends; or it reports it
\* not running: after max_attempts sleeps the logs are read (or their stream
\* fails) and the start fails, before that the task sleeps 500 ms and asks
\* again. The container may have started or ended since it was last seen.
inspect_container(t) ==
    /\ pc[t] = "start_inspect"
    /\ LET c == sb[op[t].id].status.cid IN
       \/ /\ StartFail(t, "StartContainerFailed")
          /\ UNCHANGED containers
       \/ \E r \in {"running", "exited"} :
             /\ containers' = [containers EXCEPT ![c] = r]
             /\ IF r = "running"
                THEN /\ Goto(t, "start_setup")
                     /\ UNCHANGED <<semaphore, holds, lock>>
                ELSE IF attempts[t] >= max_attempts
                THEN \E e \in {"StartContainerFailed", "ContainerReadFailed"} :
                        StartFail(t, e)
                ELSE /\ attempts' = [attempts EXCEPT ![t] = @ + 1]
                     /\ resp' = NoResp
                     /\ UNCHANGED <<pc, op, nreq, removedDone, semaphore,
                                    holds, lock>>
                     /\ UNCHANGED sessVars
                     /\ UNCHANGED <<reaper, max_sandboxes>>
    /\ UNCHANGED <<sandboxes, sb, minted, snap, infos>>

\* mod.rs 258-272 and 402-451: the setup string is empty, or it is run by
\* exec_standalone_cmd, which stores the exit code it got; create_exec or
\* start_exec fails, the output stream or inspect_exec fails, or
\* inspect_exec has no exit code and `.expect` panics.
run_setup_commands(t) ==
    /\ pc[t] = "start_setup"
    /\ \E r \in {"empty", "zero", "nonzero", "exec_failed", "read_failed",
                 "no_exit_code"} :
          CASE r = "empty" ->
                  /\ Goto(t, "start_attach")
                  /\ UNCHANGED <<sb, semaphore, holds, lock>>
            [] r = "zero" ->
                  /\ sb' = [sb EXCEPT
                              ![op[t].id].last_standalone_exit_code = <<0>>]
                  /\ Goto(t, "start_attach")
                  /\ UNCHANGED <<semaphore, holds, lock>>
            [] r = "nonzero" ->
                  /\ sb' = [sb EXCEPT
                              ![op[t].id].last_standalone_exit_code = <<1>>]
                  /\ StartFail(t, "SetupCommandsFailed")
            [] r = "exec_failed" ->
                  /\ StartFail(t, "CreateExecFailed")
                  /\ UNCHANGED sb
            [] r = "read_failed" ->
                  /\ StartFail(t, "ContainerReadFailed")
                  /\ UNCHANGED sb
            [] r = "no_exit_code" ->
                  /\ StartAbort(t)
                  /\ UNCHANGED sb
    /\ UNCHANGED <<sandboxes, minted, containers, snap, infos>>

\* mod.rs 274-334: create_exec or start_exec fails, or the exec is not
\* attached; or the interactive shell is attached, the forwarding task is
\* spawned and the two ends of the streams are stored in the sandbox.
attach_and_configure_shell(t) ==
    /\ pc[t] = "start_attach"
    /\ \E r \in {"exec_failed", "not_attached", "attached"} :
          CASE r = "exec_failed" ->
                  /\ StartFail(t, "PullImageFailed")
                  /\ UNCHANGED sb
            [] r = "not_attached" ->
                  /\ StartFail(t, "StartContainerFailed")
                  /\ UNCHANGED sb
            [] r = "attached" ->
                  /\ sb' = [sb EXCEPT ![op[t].id].input = TRUE,
                                      ![op[t].id].output_receiver = TRUE]
                  /\ Goto(t, "start_configure")
                  /\ UNCHANGED <<semaphore, holds, lock>>
    /\ UNCHANGED <<sandboxes, minted, containers, snap, infos>>

\* mod.rs 336-340 and 122-124: the prompts are configured and the output is
\* read up to the first marker; the write fails, no marker comes within the
\* 2 s or the stream ends; or the start time and the permit are stored. The
\* handler returns: if it had the last Arc, the sandbox goes with the permit
\* it has just been given.
attach_and_configure_shell_return(t) ==
    /\ pc[t] = "start_configure"
    /\ \E r \in {"write_failed", "timeout", "closed", "ok"} :
          CASE r = "write_failed" ->
                  /\ StartFail(t, "ContainerWriteFailed")
                  /\ UNCHANGED sb
            [] r = "timeout" ->
                  /\ StartFail(t, "TimeoutWaitingForMarker")
                  /\ UNCHANGED sb
            [] r = "closed" ->
                  /\ StartFail(t, "ContainerReadFailed")
                  /\ UNCHANGED sb
            [] r = "ok" ->
                  /\ sb' = [sb EXCEPT ![op[t].id].start_time = TRUE,
                                      ![op[t].id].permit = holds[t]]
                  /\ holds' = [holds EXCEPT ![t] = FALSE]
                  /\ lock' = [lock EXCEPT ![op[t].id] = NoTask]
                  /\ Finish(t, Ok(<<>>))
                  /\ semaphore' = IF holds[t] /\ LastArc(t, op[t].id)
                                  THEN semaphore + 1 ELSE semaphore
    /\ UNCHANGED <<sandboxes, minted, containers, snap, infos>>

\* ------------------------------------------------------------- stop_sandbox
StopLookup_keep(reg, id, remove) == reg

\* http.rs 191-194: `remove` takes the entry out of the map, `get` leaves it.
StopLookup(reg, id, remove) == IF remove THEN reg \ {id} ELSE reg

\* http.rs 188-196: remove the entry, or clone it.
stop_sandbox_get(t) ==
    /\ pc[t] = "stop_get"
    /\ RegistryFree
    /\ IF op[t].id \in sandboxes
       THEN /\ sandboxes' = StopLookup(sandboxes, op[t].id, op[t].flag)
            /\ Goto(t, "stop_lock")
       ELSE /\ Finish(t, NotFound)
            /\ UNCHANGED sandboxes
    /\ UNCHANGED <<sb, minted, semaphore, lock, containers, holds, snap, infos>>

StopAccepts_idempotent(st) == st.tag \in {"Started", "Exited", "Stopped"}

\* mod.rs 457-460: the arms of the match in Sandbox::stop.
StopAccepts(st) == st.tag \in {"Started", "Exited"}

\* http.rs 199 and mod.rs 453-460: lock, permit.take(), match on the status.
Sandbox_stop(t) ==
    /\ pc[t] = "stop_lock"
    /\ lock[op[t].id] = NoTask
    /\ semaphore' = IF sb[op[t].id].permit THEN semaphore + 1 ELSE semaphore
    /\ sb' = [sb EXCEPT ![op[t].id].permit = FALSE]
    /\ IF StopAccepts(sb[op[t].id].status)
       THEN /\ lock' = [lock EXCEPT ![op[t].id] = t]
            /\ Goto(t, "stop_remove")
       ELSE /\ Finish(t, Err("NotStarted"))
            /\ UNCHANGED lock
    /\ UNCHANGED <<sandboxes, minted, containers, holds, snap, infos>>

RemoveResult_propagated(ok) ==
    IF ok THEN Ok(<<>>) ELSE Err("StopContainerFailed")

\* mod.rs 462 and 476: `let _ = ...remove_container(..).await;` ... Ok(())
RemoveResult(ok) == Ok(<<>>)

Sandbox_stopped_afresh(rec) == [SandboxNew EXCEPT !.status = Stopped]

\* mod.rs 472-475: status = Stopped, input = None, output_receiver = None;
\* no other field is assigned.
Sandbox_stopped(rec) ==
    [rec EXCEPT !.status = Stopped, !.input = FALSE,
                !.output_receiver = FALSE]

\* mod.rs 461-477: remove_container(force); its error is ignored.
remove_container(t) ==
    /\ pc[t] = "stop_remove"
    /\ LET c == sb[op[t].id].status.cid IN
       \E ok \in BOOLEAN :
          /\ containers' = IF ok /\ c \in DOMAIN containers
                           THEN [containers EXCEPT ![c] = "removed"]
                           ELSE containers
          /\ Finish(t, RemoveResult(ok))
    /\ sb' = [sb EXCEPT ![op[t].id] = Sandbox_stopped(@)]
    /\ lock' = [lock EXCEPT ![op[t].id] = NoTask]
    /\ UNCHANGED <<sandboxes, minted, semaphore, holds, snap, infos>>

\* ----------------------------------------------------------------- exec_cmd
\* The commands and exit codes a request of Spec carries.
ExitCodes == {0, 1}

\* http.rs 147-153.
exec_cmd_get(t) ==
    /\ pc[t] = "exec_get"
    /\ RegistryFree
    /\ IF op[t].id \in sandboxes
       THEN Goto(t, IF op[t].flag THEN "exec_standalone" ELSE "exec_session")
       ELSE Finish(t, NotFound)
    /\ UNCHANGED <<sandboxes, sb, minted, semaphore, lock, containers, holds, snap, infos>>

\* http.rs 155-167: the method returns before its first await, within the
\* step in which the guard was taken.
ExecReturn(t, r) ==
    /\ lock[op[t].id] = NoTask
    /\ UNCHANGED lock
    /\ Release(t)
    /\ Finish(t, r)

CommandResult(output, exit_code, exited) ==
    [output |-> output, exit_code |-> exit_code, exited |-> exited]

CommandExecution(command, result) ==
    [command |-> command, result |-> result]

SessionCheck_exitedOk(st) ==
    IF st.tag \in {"Started", "Exited"} THEN "" ELSE "NotStarted"

\* mod.rs 343-347: the match on the status at the head of exec_session_cmd;
\* "" stands for the arm that goes on.
SessionCheck(st) ==
    CASE st.tag = "Started" -> ""
      [] st.tag = "Exited" -> "AlreadyExited"
      [] OTHER -> "NotStarted"

StandaloneAccepts_startedOnly(st) == st.tag = "Started"

\* mod.rs 403-406: the match at the head of exec_standalone_cmd.
StandaloneAccepts(st) == st.tag \in {"Started", "Exited"}

trajectory_push_overwrite(tr, e) == <<e>>

\* mod.rs 395: self.trajectory.push(command_execution)
trajectory_push(tr, e) == Append(tr, e)

\* mod.rs 342-357 and 481-487 as seen by the registry: the guard is taken
\* and the status and the input handle are checked; then the command is
\* being written to the shell's stdin.
exec_session_cmd(t) ==
    /\ pc[t] = "exec_session"
    /\ LET s == op[t].id
           st == sb[s].status IN
       IF SessionCheck(st) # ""
       THEN ExecReturn(t, Err(SessionCheck(st)))
       ELSE IF ~sb[s].input
            THEN ExecReturn(t, Err("NotStarted"))
            ELSE /\ MutexLock(t, s)
                 /\ Goto(t, "exec_session_read")
                 /\ UNCHANGED semaphore
    /\ UNCHANGED <<sandboxes, sb, minted, containers, holds, snap, infos>>

\* mod.rs 357-400 as seen by the registry: the shell's part of the exchange
\* (failed write, closed stream, three timed-out reads, text whose exit
\* code does not parse, or text with an exit code and possibly the exit
\* sentinel) is the input of the step; the guard is dropped when the
\* method returns or the task unwinds.
exec_session_cmd_return(t) ==
    /\ pc[t] = "exec_session_read"
    /\ LET s == op[t].id
           st == sb[s].status IN
          \/ /\ \E e \in {"ContainerWriteFailed", "ContainerReadFailed",
                           "TimeoutWaitingForMarker"} :
                   Finish(t, Err(e))
             /\ UNCHANGED sb
          \/ /\ Finish(t, Panicked)
             /\ UNCHANGED sb
          \/ \E code \in ExitCodes, seen \in BOOLEAN :
                LET result == CommandResult(<<>>, code, seen) IN
                /\ sb' = [sb EXCEPT
                      ![s].status = IF seen THEN Exited(st.cid) ELSE st,
                      ![s].trajectory =
                          trajectory_push(@,
                              CommandExecution("cmd", <<result>>))]
                /\ Finish(t, Ok(<<result>>))
    /\ MutexUnlock(t, op[t].id)
    /\ Release(t)
    /\ UNCHANGED <<sandboxes, minted, containers, holds, snap, infos>>

\* mod.rs 402-406: the guard is taken and the status is checked; then the
\* exec is being created on the container host.
exec_standalone_cmd(t) ==
    /\ pc[t] = "exec_standalone"
    /\ LET s == op[t].id
           st == sb[s].status IN
       IF StandaloneAccepts(st)
       THEN /\ MutexLock(t, s)
            /\ Goto(t, "exec_standalone_run")
            /\ UNCHANGED semaphore
       ELSE ExecReturn(t, Err("NotStarted"))
    /\ UNCHANGED <<sandboxes, sb, minted, containers, holds, snap, infos>>

\* mod.rs 407-451: create_exec or start_exec fails; the output stream or
\* inspect_exec fails; inspect_exec has no exit code and `.expect` panics;
\* or the output is collected and the exit code stored.
exec_standalone_cmd_return(t) ==
    /\ pc[t] = "exec_standalone_run"
    /\ LET s == op[t].id IN
          \/ /\ \E e \in {"CreateExecFailed", "ContainerReadFailed"} :
                   Finish(t, Err(e))
             /\ UNCHANGED sb
          \/ /\ Finish(t, Panicked)
             /\ UNCHANGED sb
          \/ \E code \in ExitCodes :
                /\ sb' = [sb EXCEPT
                            ![s].last_standalone_exit_code = <<code>>]
                /\ Finish(t, Ok(<<CommandResult(<<>>, code, FALSE)>>))
    /\ MutexUnlock(t, op[t].id)
    /\ Release(t)
    /\ UNCHANGED <<sandboxes, minted, containers, holds, snap, infos>>

\* ----------------------------------------------- get_trajectory (formatted)
\* http.rs 214-220.
get_trajectory_get(t) ==
    /\ pc[t] = "traj_get"
    /\ RegistryFree
    /\ IF op[t].id \in sandboxes
       THEN Goto(t, "traj_read")
       ELSE Finish(t, NotFound)
    /\ UNCHANGED <<sandboxes, sb, minted, semaphore, lock, containers, holds, snap, infos>>

\* http.rs 222-252: under the sandbox lock, without suspension.
get_trajectory(t) ==
    /\ pc[t] = "traj_read"
    /\ lock[op[t].id] = NoTask
    /\ Finish(t, Ok(<<Len(sb[op[t].id].trajectory), sb[op[t].id].trajectory>>))
    /\ Release(t)
    /\ UNCHANGED <<sandboxes, sb, minted, lock, containers, holds, snap, infos>>

\* http.rs 264-270.
get_trajectory_formatted_get(t) ==
    /\ pc[t] = "fmt_get"
    /\ RegistryFree
    /\ IF op[t].id \in sandboxes
       THEN Goto(t, "fmt_read")
       ELSE Finish(t, NotFound)
    /\ UNCHANGED <<sandboxes, sb, minted, semaphore, lock, containers, holds, snap, infos>>

\* mod.rs 88-107: one "$ cmd" line per entry, then the output if it is not
\* empty, or the no-result line.
format_trajectory(tr) ==
    [i \in 1..Len(tr) |->
        IF tr[i].result = <<>>
        THEN <<"$", tr[i].command, "Status: Command started but no result recorded">>
        ELSE IF tr[i].result[1].output = <<>>
             THEN <<"$", tr[i].command>>
             ELSE <<"$", tr[i].command, tr[i].result[1].output>>]

\* http.rs 272-273.
get_trajectory_formatted(t) ==
    /\ pc[t] = "fmt_read"
    /\ lock[op[t].id] = NoTask
    /\ Finish(t, Ok(format_trajectory(sb[op[t].id].trajectory)))
    /\ Release(t)
    /\ UNCHANGED <<sandboxes, sb, minted, lock, containers, holds, snap, infos>>

\* ----------------------------------------------------------- list_sandboxes
\* http.rs 297-300: clone the Arcs under the registry lock.
list_sandboxes_snapshot(t) ==
    /\ pc[t] = "list_snapshot"
    /\ RegistryFree
    /\ snap' = [snap EXCEPT ![t] = sandboxes]
    /\ infos' = [infos EXCEPT ![t] = {}]
    /\ Goto(t, "list_read")
    /\ UNCHANGED <<sandboxes, sb, minted, semaphore, lock, containers, holds>>

SandboxInfo(s) ==
    [id |-> s,
     status |-> StatusToString(sb[s].status),
     session_command_count |-> Len(sb[s].trajectory),
     last_standalone_exit_code |-> sb[s].last_standalone_exit_code]

\* http.rs 303-317: each future locks its sandbox and reads it.
list_sandboxes_read(t) ==
    /\ pc[t] = "list_read"
    /\ \E s \in snap[t] :
          /\ lock[s] = NoTask
          /\ snap' = [snap EXCEPT ![t] = @ \ {s}]
          /\ infos' = [infos EXCEPT ![t] = @ \cup {SandboxInfo(s)}]
    /\ Goto(t, "list_read")
    /\ UNCHANGED <<sandboxes, sb, minted, semaphore, lock, containers, holds>>

\* http.rs 319-320: join_all has every SandboxInfo.
list_sandboxes(t) ==
    /\ pc[t] = "list_read"
    /\ snap[t] = {}
    /\ infos' = [infos EXCEPT ![t] = {}]
    /\ Finish(t, Ok(infos[t]))
    /\ Release(t)
    /\ UNCHANGED <<sandboxes, sb, minted, lock, containers, holds, snap>>

\* ============================================================ shell session
\* Text is a sequence of symbols: single characters, and some longer
\* strings taken as one symbol each. A marker of shell.rs is two symbols,
\* its own head and the rest, which the three markers share: a text that
\* stands between the two parts of a marker can be taken out, and the parts
\* then make the marker.
MarkerTail == "TR0N-F1GHTS-4-TH3-U23R2#:"

\* shell.rs 4-8
PS1_MARKER == <<"#PS1-", MarkerTail>>
PS2_MARKER == <<"#PS2-", MarkerTail>>
EXIT_MARKER == <<"#EXIT-", MarkerTail>>

\* The pattern pat stands in text at position i.
At(text, pat, i) ==
    /\ i + Len(pat) - 1 <= Len(text)
    /\ SubSeq(text, i, i + Len(pat) - 1) = pat

\* str::find: the first position where the pattern stands, or 0.
Find(text, pat) ==
    IF \E i \in 1..Len(text) : At(text, pat, i)
    THEN CHOOSE i \in 1..Len(text) :
            At(text, pat, i) /\ \A j \in 1..(i - 1) : ~At(text, pat, j)
    ELSE 0

\* str::replace(pat, ""): one pass from left to right over the text from
\* position i on; what the removals bring together is not looked at again.
RECURSIVE replace(_, _, _)
replace(text, pat, i) ==
    IF i > Len(text) THEN <<>>
    ELSE IF At(text, pat, i) THEN replace(text, pat, i + Len(pat))
    ELSE <<text[i]>> \o replace(text, pat, i + 1)

Digits == <<"0", "1", "2", "3", "4", "5", "6", "7", "8", "9">>

\* A run of twenty digits 9, taken as one symbol: more than an i64 holds.
LongDigits == "99999999999999999999"

\* A decimal digit that is not ASCII: U+0663, ARABIC-INDIC DIGIT THREE.
ArabicDigit == "U+0663"

IsAsciiDigit(c) == \E d \in 1..10 : Digits[d] = c

\* io.rs 105-110: \d of the regex crate is every Unicode decimal digit.
IsDigit(c) == c = LongDigits \/ c = ArabicDigit \/ IsAsciiDigit(c)
DigitValue(c) == (CHOOSE d \in 1..10 : Digits[d] = c) - 1
DigitOf(n) == Digits[n + 1]

\* The decimal digits of a natural number, as $? is printed.
RECURSIVE Decimal(_)
Decimal(n) ==
    IF n < 10 THEN <<DigitOf(n)>>
    ELSE Decimal(n \div 10) \o <<DigitOf(n % 10)>>

\* mod.rs 374: the byte 0x04.
CTRL_D == "^D"

\* U+000B (vertical tab) and U+00A0 (no-break space).
VT == "U+000B"
NBSP == "U+00A0"

\* char::is_whitespace, the White_Space property, on the symbols of the
\* model.
IsWhitespace(c) == c \in {" ", "\n", "\r", "\t", "\f", VT, NBSP}

\* strip_ansi_escapes::strip_str: escape sequences and every control
\* character except the line feed are dropped.
strip_str(chunk) ==
    SelectSeq(chunk,
              LAMBDA c : c \notin {"\r", "\t", "\f", VT, CTRL_D, "ESC[K"})

\* str::trim_end
RECURSIVE trim_end(_)
trim_end(text) ==
    IF text # <<>> /\ IsWhitespace(text[Len(text)])
    THEN trim_end(SubSeq(text, 1, Len(text) - 1))
    ELSE text

\* First position at or after i that holds no digit.
RECURSIVE DigitRunEnd(_, _)
DigitRunEnd(text, i) ==
    IF i <= Len(text) /\ IsDigit(text[i]) THEN DigitRunEnd(text, i + 1) ELSE i

\* io.rs 105-110: OUTPUT_MARKER_REGEX = escape(PS1_MARKER) (\d+) ":".
\* The end of the match that starts at i, or 0.
MatchEnd(text, i) ==
    IF ~At(text, PS1_MARKER, i) THEN 0
    ELSE LET d == i + Len(PS1_MARKER)
             j == DigitRunEnd(text, d)
         IN  IF j > d /\ j <= Len(text) /\ text[j] = ":" THEN j ELSE 0

\* The digits of the match <<first, last>> of text.
MatchDigits(text, m) == SubSeq(text, m[1] + Len(PS1_MARKER), m[2] - 1)

\* Regex::find_iter: the non-overlapping matches from left to right, each
\* as <<first, last>>.
RECURSIVE find_iter(_, _)
find_iter(text, i) ==
    IF i > Len(text) THEN <<>>
    ELSE LET j == MatchEnd(text, i) IN
         IF j = 0 THEN find_iter(text, i + 1)
         ELSE <<(<<i, j>>)>> \o find_iter(text, j + 1)

\* i64::MAX, 2^63 - 1, in digits.
MaxI64 ==
    <<"9", "2", "2", "3", "3", "7", "2", "0", "3", "6", "8", "5", "4", "7",
      "7", "5", "8", "0", "7">>

RECURSIVE DropZeros(_)
DropZeros(ds) ==
    IF ds # <<>> /\ ds[1] = "0" THEN DropZeros(Tail(ds)) ELSE ds

\* Of two runs of ASCII digits of one length the first is not the greater.
RECURSIVE DigitsLeq(_, _)
DigitsLeq(a, b) ==
    IF a = <<>> THEN TRUE
    ELSE IF a[1] = b[1] THEN DigitsLeq(Tail(a), Tail(b))
    ELSE DigitValue(a[1]) < DigitValue(b[1])

\* str::parse::<i64> of a digit run is Ok: every digit is ASCII and the
\* number, whatever zeros lead it, is not above i64::MAX.
Representable(ds) ==
    /\ \A i \in 1..Len(ds) : IsAsciiDigit(ds[i])
    /\ LET n == DropZeros(ds) IN
       \/ Len(n) < Len(MaxI64)
       \/ Len(n) = Len(MaxI64) /\ DigitsLeq(n, MaxI64)

\* str::parse::<i64> of a digit run, when it is Ok.
RECURSIVE parse_i64(_)
parse_i64(ds) ==
    IF ds = <<>> THEN 0
    ELSE 10 * parse_i64(SubSeq(ds, 1, Len(ds) - 1)) + DigitValue(ds[Len(ds)])

\* Regex::replace_all(text, ""), given the matches of text.
RECURSIVE replace_all(_, _, _)
replace_all(text, ms, i) ==
    IF i > Len(text) THEN <<>>
    ELSE IF ms # <<>> /\ ms[1][1] = i
         THEN replace_all(text, Tail(ms), ms[1][2] + 1)
         ELSE <<text[i]>> \o replace_all(text, ms, i + 1)

LastMatch_first(ms) == ms[1]

\* io.rs 86-93: the loop over captures_iter keeps the code of the last match.
LastMatch(ms) == ms[Len(ms)]

\* io.rs 66-83: the text in which the exit codes are looked for, PS2 markers
\* removed and cut at the exit marker.
Cleaned(output) ==
    LET no_ps2 == replace(output, PS2_MARKER, 1)
        idx == Find(no_ps2, EXIT_MARKER)
        all == find_iter(no_ps2, 1)
    IN  IF idx = 0 THEN no_ps2
        ELSE IF all # <<>>
             THEN SubSeq(no_ps2, 1, idx - 1)
                     \o SubSeq(no_ps2, all[Len(all)][1], all[Len(all)][2])
             ELSE SubSeq(no_ps2, 1, idx - 1)

\* io.rs 86-93: parse::<i64>().expect(..) is reached for every match of the
\* cleaned text, and panics on the first run of digits that is no i64.
ExitCodesParse(output) ==
    LET cut == Cleaned(output)
        ms == find_iter(cut, 1)
    IN  \A m \in 1..Len(ms) :
           Representable(MatchDigits(cut, ms[m]))

\* io.rs 66-100.
strip_markers_and_extract_exit_code(output) ==
    LET no_ps2 == replace(output, PS2_MARKER, 1)
        idx == Find(no_ps2, EXIT_MARKER)
        exit_marker_seen == idx # 0
        all == find_iter(no_ps2, 1)
        cut == IF exit_marker_seen
               THEN IF all # <<>>
                    THEN SubSeq(no_ps2, 1, idx - 1)
                            \o SubSeq(no_ps2, all[Len(all)][1],
                                      all[Len(all)][2])
                    ELSE SubSeq(no_ps2, 1, idx - 1)
               ELSE no_ps2
        ms == find_iter(cut, 1)
        last_exit_code ==
            IF ms = <<>> THEN -1
            ELSE parse_i64(MatchDigits(cut, LastMatch(ms)))
        no_ps1 == replace(replace_all(cut, ms, 1), PS1_MARKER, 1)
    IN  <<trim_end(no_ps1), last_exit_code, exit_marker_seen>>

\* ------------------------------------------------------- the guest's shell
\* shell.rs 10 and 23: PS1 is the marker, $? and a colon.
PS1(status) == PS1_MARKER \o Decimal(status) \o <<":">>

\* shell.rs 11 and 26.
PS2 == PS2_MARKER

\* The terminal turns each line feed of the shell's output into CR LF.
CRLF == <<"\r", "\n">>

\* bash: unexpected EOF while looking for matching `"'
UnexpectedEOF == <<"E", "O", "F">>

\* Use "exit" to leave the shell.
UseExit == <<"U", "s", "e">>

\* What `echo "` puts before the quote that a later line closes.
EchoSp == <<"e", "c", "h", "o", " ">>

\* `sleep 1`, `sleep 3` and `sleep 7` in idle timeouts (0.2 s).
ShortSleep == 5
LongSleep == 15
StuckSleep == 35

\* What a command prints between single quotes: the head of the exit marker,
\* the PS2 marker and the rest of a marker.
SpliceText == <<"#EXIT-">> \o PS2_MARKER \o <<MarkerTail>>

\* echo '#EXIT-#PS2-TR0N-F1GHTS-4-TH3-U23R2#:TR0N-F1GHTS-4-TH3-U23R2#:'
SpliceCmd == <<"echo '">> \o SpliceText \o <<"'">>

\* stty onlcr: the terminal turns each line feed of the output into CR LF.
RECURSIVE onlcr(_)
onlcr(text) ==
    IF text = <<>> THEN <<>>
    ELSE (IF text[1] = "\n" THEN CRLF ELSE <<text[1]>>) \o onlcr(Tail(text))

\* A line typed inside a double quote is text, with $? expanded.
QuotedLine(line, sh) ==
    IF line = <<"echo $?">> THEN <<"echo ">> \o Decimal(sh.status) ELSE line

\* The interactive bash started by init_cmd and configured by CONF_CMD, in
\* state sh, reads one input line: its new $?, working directory and
\* open-quote flag, what it prints before the next prompt, and how long the
\* line runs.
\* While a double quote is open (sh.open, not sh.eof) every line is text
\* of the string, kept in sh.quoted, until `echo "` closes it and the string
\* is printed. Ctrl-D read while the quote is open is an unexpected end of
\* file: bash prints the error and the PS2 prompt again, drops the string,
\* and $? is 2 unless it was not 0 (sh.eof, not sh.open). After that a
\* second Ctrl-D is answered as at the prompt (ignoreeof), `echo "` opens a
\* string again (sh.eof and sh.open), and bash exits at the end of the next
\* command, be it one line or the string once it is closed.
bash_line(line, sh) ==
    LET r(status, cwd, open, out, dur) ==
            [status |-> status, cwd |-> cwd, open |-> open, out |-> out,
             dur |-> dur, loop |-> FALSE, eof |-> FALSE, exit |-> FALSE,
             quoted |-> <<>>]
    IN
    IF sh.eof /\ ~sh.open
    THEN CASE line = <<CTRL_D>> ->
                 r(sh.status, sh.cwd, FALSE, UseExit \o CRLF, 0)
           [] line = <<"echo \"">> ->
                 [r(sh.status, sh.cwd, TRUE, <<>>, 0)
                    EXCEPT !.eof = TRUE, !.quoted = <<"\n">>]
           [] OTHER ->
                 [r(sh.status, sh.cwd, FALSE, <<>>, 0)
                    EXCEPT !.eof = TRUE, !.exit = TRUE]
    ELSE IF sh.open
    THEN CASE line = <<CTRL_D>> ->
                 [r(IF sh.status = 0 THEN 2 ELSE sh.status, sh.cwd, FALSE,
                    UnexpectedEOF \o CRLF, 0)
                    EXCEPT !.eof = TRUE]
           \* the second quote ends the string: a line feed, the lines
           \* typed since and `echo `
           [] line = <<"echo \"">> ->
                 IF sh.eof
                 THEN [r(sh.status, sh.cwd, TRUE, <<>>, 0)
                         EXCEPT !.eof = TRUE, !.exit = TRUE]
                 ELSE r(0, sh.cwd, FALSE,
                        onlcr(sh.quoted \o EchoSp \o <<"\n">>), 0)
           [] OTHER ->
                 [r(sh.status, sh.cwd, TRUE, <<>>, 0)
                    EXCEPT !.eof = sh.eof,
                           !.quoted = sh.quoted \o QuotedLine(line, sh)
                                         \o <<"\n">>]
    ELSE CASE line = <<"true">> -> r(0, sh.cwd, FALSE, <<>>, 0)
           [] line = <<"false">> -> r(1, sh.cwd, FALSE, <<>>, 0)
           [] line = <<"echo $?">> ->
                 r(0, sh.cwd, FALSE, Decimal(sh.status) \o CRLF, 0)
           [] line = <<"cd /tmp">> -> r(0, "/tmp", FALSE, <<>>, 0)
           [] line = <<"pwd">> -> r(0, sh.cwd, FALSE, <<sh.cwd>> \o CRLF, 0)
           \* shell.rs 34: exit() { echo '<EXIT_MARKER>'; return 0; }
           [] line = <<"exit">> ->
                 r(0, sh.cwd, FALSE, EXIT_MARKER \o CRLF, 0)
           [] line = <<"sleep 1">> -> r(0, sh.cwd, FALSE, <<>>, ShortSleep)
           [] line = <<"sleep 3">> -> r(0, sh.cwd, FALSE, <<>>, LongSleep)
           [] line = <<"sleep 7">> -> r(0, sh.cwd, FALSE, <<>>, StuckSleep)
           \* prints at once and then runs on, silent
           [] line = <<"pwd; sleep 3">> ->
                 r(0, sh.cwd, FALSE, <<sh.cwd>> \o CRLF, LongSleep)
           \* the exit function prints the marker and returns; the shell
           \* runs on
           [] line = <<"exit; sleep 3">> ->
                 r(0, sh.cwd, FALSE, EXIT_MARKER \o CRLF, LongSleep)
           [] line = SpliceCmd -> r(0, sh.cwd, FALSE, SpliceText \o CRLF, 0)
           \* prints a letter again and again and never ends
           [] line = <<"while printf y; do :; done">> ->
                 [r(sh.status, sh.cwd, FALSE, <<"y">>, 0)
                    EXCEPT !.loop = TRUE]
           \* an unterminated double quote
           [] line = <<"echo \"">> ->
                 [r(sh.status, sh.cwd, TRUE, <<>>, 0)
                    EXCEPT !.quoted = <<"\n">>]
           \* a comment or an empty line leaves $? alone
           [] line = <<"# c">> -> r(sh.status, sh.cwd, FALSE, <<>>, 0)
           [] line = <<>> -> r(sh.status, sh.cwd, FALSE, <<>>, 0)
           \* shell.rs 37: ignoreeof
           [] line = <<CTRL_D>> ->
                 r(sh.status, sh.cwd, FALSE, UseExit \o CRLF, 0)

\* ------------------------------------------- the session of one sandbox
\* The sandbox whose session SessSpec follows.
S == 1

MaxCalls == 2

\* mod.rs 363 and 370: overall timeout 2.0 s over idle timeout 0.2 s.
IdlePerOverall == 10

SessionCmds ==
    {<<"false">>, <<"echo $?">>, <<"cd /tmp">>, <<"pwd">>, <<"exit">>,
     <<"pwd; sleep 3">>, <<"exit; sleep 3">>, SpliceCmd, <<"sleep 7">>,
     <<"echo \"">>, <<"# c">>, <<"while printf y; do :; done">>,
     <<"false", "\n", "sleep 1">>, <<"false", "\n", "pwd">>}

StandaloneCmds ==
    {<<"pwd">>, <<"false">>, <<"cd /tmp", "\n", "pwd">>,
     <<"exit", "\n", "pwd">>, <<"echo \"">>}

Count(text, c) == Cardinality({i \in 1..Len(text) : text[i] = c})

\* str::split('\n'): the pieces between the line feeds.
RECURSIVE split(_)
split(text) ==
    LET i == Find(text, <<"\n">>) IN
    IF i = 0 THEN <<text>>
    ELSE <<SubSeq(text, 1, i - 1)>> \o split(SubSeq(text, i + 1, Len(text)))

n_commands_hint_newlines(cmd) == Count(cmd, "\n")

\* mod.rs 361: cmd.split('\n').count()
n_commands_hint(cmd) == Len(split(cmd))

\* A started sandbox (mod.rs 116-124) with its container and permit.
SessSandbox ==
    [SandboxNew EXCEPT !.status = Started(1), !.permit = TRUE,
                       !.input = TRUE, !.output_receiver = TRUE,
                       !.start_time = TRUE]

\* SessSpec starts where create_sandbox has returned for sandbox S, or
\* where a successful start of S has returned: the shell is configured and
\* its first prompt has been read.
InitSess ==
    /\ max_sandboxes = MaxConcurrent
    /\ sandboxes = {S}
    /\ \E started \in BOOLEAN :
          /\ sb = [s \in Ids |-> IF s = S /\ started THEN SessSandbox
                                  ELSE SandboxNew]
          /\ semaphore = IF started THEN max_sandboxes - 1 ELSE max_sandboxes
          /\ containers = IF started THEN <<"running">> ELSE <<>>
    /\ minted = {S}
    /\ lock = [s \in Ids |-> NoTask]
    /\ pc = [t \in Tasks |-> "idle"]
    /\ op = [t \in Tasks |-> NoOp]
    /\ holds = [t \in Tasks |-> FALSE]
    /\ attempts = [t \in Tasks |-> 0]
    /\ snap = [t \in Tasks |-> {}]
    /\ infos = [t \in Tasks |-> {}]
    /\ resp = NoResp
    /\ nreq = 0
    /\ removedDone = {}
    /\ reaper = NoReaper
    /\ SessInit

\* A call of exec and what is known of it: `received` is all the text its
\* reads took from the stream, `text` the buffer its last read returned.
Call(kind, cmd) ==
    [kind |-> kind, cmd |-> cmd, result |-> <<>>, err |-> "",
     timed_out |-> FALSE, first |-> 0, last |-> 0, real_exit |-> <<>>,
     real_out |-> <<>>, received |-> <<>>, text |-> <<>>, nudges |-> <<>>]

\* The terminal of the shell keeps what is written for the shell to read.
\* While a command runs the terminal is in canonical mode, where Ctrl-D is
\* no input: the byte gives the shell nothing to read later.
TtyKeeps(text) ==
    /\ ~bash.gone
    /\ ~(text = <<CTRL_D>> /\ (bash.sleeping \/ bash.printing))

\* mod.rs 481-497: write_all and flush. What is written to a shell that is
\* gone is read by nobody.
write_cmd(text) ==
    /\ stdin' = IF TtyKeeps(text) THEN stdin \o text ELSE stdin
    /\ units' = IF TtyKeeps(text) \/ bash.gone
                THEN units + Count(text, "\n") + Count(text, CTRL_D)
                ELSE units

\* mod.rs 342-364: the status check, the write of cmd + "\n", the hint and
\* the start of the first read.
exec_session_cmd_write ==
    /\ rd.pc = "none"
    /\ Len(calls) < MaxCalls
    /\ \E cmd \in SessionCmds :
          IF SessionCheck(sb[S].status) # ""
          THEN    /\ calls' = Append(calls, [Call("session", cmd) EXCEPT
                                                !.err =
                                                  SessionCheck(sb[S].status)])
                  /\ UNCHANGED <<stdin, units, rd>>
          ELSE \/ /\ write_cmd(cmd \o <<"\n">>)
                  /\ calls' = Append(calls, [Call("session", cmd) EXCEPT
                                                !.first = units + 1,
                                                !.last = units'])
                  /\ rd' = [NoRead EXCEPT !.pc = "read", !.attempt = 1,
                                          !.n = n_commands_hint(cmd)]
               \* mod.rs 488-495: the write to a shell that is gone can fail
               \/ /\ bash.gone
                  /\ calls' = Append(calls, [Call("session", cmd) EXCEPT
                                                !.err =
                                                  "ContainerWriteFailed"])
                  /\ UNCHANGED <<stdin, units, rd>>
    /\ UNCHANGED <<sb, bash, channel>>
    /\ UNCHANGED lifeVars

\* mod.rs 384-399: the read returned Ok(accumulated). When the extraction
\* of the exit code panics (io.rs 92) the handler's task unwinds: nothing is
\* assigned and no response is written.
ExecSessionOk(accumulated) ==
    LET r == strip_markers_and_extract_exit_code(accumulated)
        result == CommandResult(r[1], r[2], r[3])
        cmd == calls[Len(calls)].cmd
        got == SubSeq(accumulated, Len(rd.accumulated) + 1, Len(accumulated))
    IN
    /\ IF ExitCodesParse(accumulated)
       THEN /\ sb' = [sb EXCEPT
                       ![S].status = IF r[3] THEN Exited(@.cid) ELSE @,
                       ![S].trajectory =
                           trajectory_push(@,
                                           CommandExecution(cmd, <<result>>))]
            /\ calls' = [calls EXCEPT ![Len(calls)].result = <<result>>,
                                      ![Len(calls)].received = @ \o got,
                                      ![Len(calls)].text = accumulated]
       ELSE /\ calls' = [calls EXCEPT ![Len(calls)].err = "panicked",
                                      ![Len(calls)].received = @ \o got,
                                      ![Len(calls)].text = accumulated]
            /\ UNCHANGED sb
    /\ rd' = NoRead

\* One idle timeout (0.2 s) goes by for the guest.
Tick(sh) == IF sh.sleeping /\ sh.busy > 0 THEN [sh EXCEPT !.busy = @ - 1] ELSE sh

\* The shell has something to do that takes no time.
BashReady ==
    /\ ~bash.gone
    /\ \/ bash.sleeping /\ bash.busy = 0
       \/ ~bash.sleeping /\ ~bash.printing /\ stdin # <<>>
             /\ (stdin[1] = CTRL_D \/ Find(stdin, <<"\n">>) # 0)

\* io.rs 32: the time a chunk is waited for, in idle timeouts. What a fast
\* command prints is there at once; a command that prints without end is
\* taken to print once in every idle timeout.
ChunkWait == IF bash.printing THEN 1 ELSE 0

OverallElapsed_never(elapsed) == FALSE

\* io.rs 28: start.elapsed().as_secs_f64() > overall_timeout
OverallElapsed(elapsed) == elapsed >= IdlePerOverall

is_match_any(text) == TRUE

\* io.rs 55: OUTPUT_MARKER_REGEX.is_match(&accumulated)
is_match(text) == find_iter(text, 1) # <<>>

\* io.rs 28-48: the loop is within the overall timeout and a chunk arrives;
\* the chunk is any prefix of what the shell has printed.
read_stream_until_idle_chunk ==
    /\ rd.pc = "read"
    /\ rd.elapsed < IdlePerOverall
    /\ \E k \in 1..Len(channel) :
          LET new_chunk == strip_str(SubSeq(channel, 1, k))
              accumulated == rd.accumulated \o new_chunk
              current_count == Len(find_iter(accumulated, 1))
              markers_seen ==
                  IF current_count > rd.last_count
                  THEN rd.markers_seen + current_count - rd.last_count
                  ELSE rd.markers_seen
          IN
          /\ channel' = SubSeq(channel, k + 1, Len(channel))
          /\ IF current_count > rd.last_count /\ markers_seen >= rd.n
             THEN ExecSessionOk(accumulated)
             ELSE /\ rd' = [rd EXCEPT
                              !.elapsed = @ + ChunkWait,
                              !.accumulated = accumulated,
                              !.markers_seen = markers_seen,
                              !.last_count =
                                  IF current_count > @ THEN current_count
                                  ELSE @]
                  /\ calls' = [calls EXCEPT
                                 ![Len(calls)].received = @ \o new_chunk]
                  /\ UNCHANGED sb
    /\ UNCHANGED <<stdin, units, bash>>
    /\ UNCHANGED lifeVars

\* io.rs 53-60: no chunk within the idle timeout. Fast commands finish
\* within an idle timeout, so the shell has nothing ready.
read_stream_until_idle_idle ==
    /\ rd.pc = "read"
    /\ rd.elapsed < IdlePerOverall
    /\ channel = <<>>
    /\ ~bash.gone
    /\ ~bash.printing
    /\ ~BashReady
    /\ bash' = Tick(bash)
    /\ IF is_match(rd.accumulated)
       THEN ExecSessionOk(rd.accumulated)
       ELSE /\ rd' = [rd EXCEPT !.elapsed = @ + 1]
            /\ UNCHANGED <<sb, calls>>
    /\ UNCHANGED <<stdin, units, channel>>
    /\ UNCHANGED lifeVars

\* io.rs 28-32, 49-52, mod.rs 523-525 and 378, 381: the loop is within the
\* overall timeout, the shell is gone, the forwarding task has ended and
\* every chunk has been read: the stream is closed, and the error leaves
\* exec_session_cmd through `Err(e) => return`.
read_stream_until_idle_closed ==
    /\ rd.pc = "read"
    /\ rd.elapsed < IdlePerOverall
    /\ channel = <<>>
    /\ bash' = DeadShell
    /\ stdin' = <<>>
    /\ calls' = [calls EXCEPT ![Len(calls)].err = "ContainerReadFailed"]
    /\ rd' = NoRead
    /\ UNCHANGED <<sb, units, channel>>
    /\ UNCHANGED lifeVars

Nudge_ctrl_d_first(attempt) == <<CTRL_D>>

\* mod.rs 368 and 373: "\n" after the first timeout, "\x04" after the second.
Nudge(attempt) == IF attempt = 1 THEN <<"\n">> ELSE <<CTRL_D>>

\* io.rs 28-30 and mod.rs 367-380: the overall timeout has elapsed. The
\* first time a newline is written, the second time Ctrl-D, and the read
\* starts again with n = 1; the third time the error is returned. The
\* write of a nudge fails when the shell has just ended (mod.rs 368 and
\* 373: write_cmd(..).await?).
read_stream_until_idle_timeout ==
    /\ rd.pc = "read"
    /\ OverallElapsed(rd.elapsed)
    /\ IF rd.attempt < 3
       THEN \/ /\ write_cmd(Nudge(rd.attempt))
               /\ rd' = [NoRead EXCEPT !.pc = "read",
                                       !.attempt = rd.attempt + 1, !.n = 1]
               /\ calls' = [calls EXCEPT
                              ![Len(calls)].timed_out = TRUE,
                              ![Len(calls)].nudges =
                                  Append(@, Nudge(rd.attempt))]
               /\ UNCHANGED bash
            \/ /\ bash' = DeadShell
               /\ stdin' = <<>>
               /\ rd' = NoRead
               /\ calls' = [calls EXCEPT
                              ![Len(calls)].err = "ContainerWriteFailed",
                              ![Len(calls)].timed_out = TRUE]
               /\ UNCHANGED units
       ELSE /\ rd' = NoRead
            /\ calls' = [calls EXCEPT
                           ![Len(calls)].err = "TimeoutWaitingForMarker",
                           ![Len(calls)].timed_out = TRUE]
            /\ UNCHANGED <<stdin, units, bash>>
    /\ UNCHANGED <<sb, channel>>
    /\ UNCHANGED lifeVars

\* The call that wrote input line u.
Owner(u) ==
    IF \E i \in 1..Len(calls) : calls[i].first <= u /\ u <= calls[i].last
    THEN CHOOSE i \in 1..Len(calls) : calls[i].first <= u /\ u <= calls[i].last
    ELSE 0

\* What the shell did for input line u is noted with the call that wrote it.
Note(u, out, done, status) ==
    LET i == Owner(u) IN
    IF i = 0 THEN calls
    ELSE [calls EXCEPT
            ![i].real_out = @ \o out,
            ![i].real_exit = IF done /\ u = calls[i].last THEN <<status>>
                             ELSE @]

\* The shell reads its next input line (or the Ctrl-D byte), runs it and
\* prints its output and the next prompt, or prints and starts to sleep.
bash_read ==
    /\ ~bash.gone
    /\ ~bash.sleeping
    /\ ~bash.printing
    /\ stdin # <<>>
    /\ stdin[1] = CTRL_D \/ Find(stdin, <<"\n">>) # 0
    /\ LET eof == stdin[1] = CTRL_D
           i == IF eof THEN 1 ELSE Find(stdin, <<"\n">>)
           line == IF eof THEN <<CTRL_D>> ELSE SubSeq(stdin, 1, i - 1)
           r == bash_line(line, bash)
           u == bash.unit + 1
       IN
       /\ stdin' = IF r.exit THEN <<>> ELSE SubSeq(stdin, i + 1, Len(stdin))
       /\ IF r.exit
          THEN /\ bash' = DeadShell
               /\ UNCHANGED <<channel, calls>>
          ELSE IF r.dur > 0
          THEN /\ bash' = [bash EXCEPT !.sleeping = TRUE, !.busy = r.dur,
                                       !.unit = u]
               /\ channel' = channel \o r.out
               /\ calls' = Note(u, r.out, FALSE, r.status)
          ELSE IF r.loop
          THEN /\ bash' = [bash EXCEPT !.printing = TRUE, !.unit = u]
               /\ UNCHANGED <<channel, calls>>
          ELSE /\ bash' = [bash EXCEPT !.status = r.status, !.cwd = r.cwd,
                                       !.open = r.open, !.eof = r.eof,
                                       !.quoted = r.quoted, !.unit = u]
               /\ channel' = channel \o r.out
                                \o (IF r.open \/ r.eof THEN PS2
                                    ELSE PS1(r.status))
               /\ calls' = Note(u, r.out, ~(r.open \/ r.eof), r.status)
    /\ UNCHANGED <<sb, rd, units>>
    /\ UNCHANGED lifeVars

\* The sleep is over: $? is 0 and the prompt is printed.
bash_wake ==
    /\ ~bash.gone
    /\ bash.sleeping
    /\ bash.busy = 0
    /\ bash' = [bash EXCEPT !.sleeping = FALSE, !.status = 0]
    /\ channel' = channel \o PS1(0)
    /\ calls' = Note(bash.unit, <<>>, TRUE, 0)
    /\ UNCHANGED <<sb, rd, stdin, units>>
    /\ UNCHANGED lifeVars

\* The command that prints without end prints its letter once more, behind
\* whatever waits unread; the channel is unbounded, and a run of unread
\* letters at its end is kept as one letter.
bash_print ==
    /\ ~bash.gone
    /\ bash.printing
    /\ LET r == bash_line(<<"while printf y; do :; done">>, bash) IN
       /\ IF channel = <<>> THEN TRUE
          ELSE <<channel[Len(channel)]>> # r.out
       /\ channel' = channel \o r.out
       /\ calls' = Note(bash.unit, r.out, FALSE, r.status)
    /\ UNCHANGED <<sb, rd, stdin, units, bash>>
    /\ UNCHANGED lifeVars

\* Time goes by between two requests.
Wait ==
    /\ rd.pc = "none"
    /\ ~bash.gone
    /\ bash.sleeping
    /\ bash.busy > 0
    /\ bash' = Tick(bash)
    /\ UNCHANGED <<sb, rd, stdin, units, channel, calls>>
    /\ UNCHANGED lifeVars

\* bash: line 1: $'\004': command not found
CommandNotFound == <<"n", "o", "t", " ", "f", "o", "u", "n", "d">>

\* One line of `/bin/bash -c cmd`: a shell that is not interactive and not
\* configured by CONF_CMD. Inside a quote every line but the one that
\* closes it is text of the string, which the closing line prints; the
\* byte 0x04 is a word like any other. `exit` is the builtin: it ends the
\* shell with $? at once. The output has plain line feeds.
bash_c_line(line, sh) ==
    LET r(status, cwd, open, out) ==
            [status |-> status, cwd |-> cwd, open |-> open, out |-> out,
             quoted |-> <<>>, exit |-> FALSE, hangs |-> FALSE]
    IN
    IF sh.open
    THEN IF line = <<"echo \"">>
         THEN r(0, sh.cwd, FALSE, sh.quoted \o EchoSp \o <<"\n">>)
         ELSE [r(sh.status, sh.cwd, TRUE, <<>>)
                 EXCEPT !.quoted = sh.quoted \o QuotedLine(line, sh)
                                      \o <<"\n">>]
    ELSE CASE line = <<CTRL_D>> ->
                 r(127, sh.cwd, FALSE, CommandNotFound \o <<"\n">>)
           [] line \in {<<"exit">>, <<"exit; sleep 3">>} ->
                 [r(sh.status, sh.cwd, FALSE, <<>>) EXCEPT !.exit = TRUE]
           [] line = <<"while printf y; do :; done">> ->
                 [r(sh.status, sh.cwd, FALSE, <<>>) EXCEPT !.hangs = TRUE]
           [] OTHER ->
                 LET b == bash_line(line, [sh EXCEPT !.eof = FALSE]) IN
                 [r(b.status, b.cwd, b.open,
                    SelectSeq(b.out, LAMBDA c : c # "\r"))
                    EXCEPT !.quoted = b.quoted]

\* `/bin/bash -c cmd` without a terminal: the lines run one after the other
\* from the state sh. A quote still open at the end of the text is a
\* syntax error: the status is 2 unless $? was not 0. A command that never
\* ends leaves the call without a result.
RECURSIVE bash_c(_, _, _)
bash_c(lines, sh, out) ==
    IF lines = <<>>
    THEN IF sh.open
         THEN [status |-> IF sh.status = 0 THEN 2 ELSE sh.status,
               out |-> out \o UnexpectedEOF \o <<"\n">>, hangs |-> FALSE]
         ELSE [status |-> sh.status, out |-> out, hangs |-> FALSE]
    ELSE LET r == bash_c_line(lines[1], sh) IN
         IF r.hangs THEN [status |-> sh.status, out |-> out, hangs |-> TRUE]
         ELSE IF r.exit
         THEN [status |-> r.status, out |-> out \o r.out, hangs |-> FALSE]
         ELSE bash_c(Tail(lines),
                     [sh EXCEPT !.status = r.status, !.cwd = r.cwd,
                                !.open = r.open, !.quoted = r.quoted],
                     out \o r.out)

StandaloneEnv_session(sh) == sh

\* mod.rs 407-424: create_exec starts a new process in the container; it
\* inherits nothing from the interactive shell sh.
StandaloneEnv(sh) == FreshShell

\* mod.rs 402-451: create_exec or start_exec fails, the output stream or
\* inspect_exec fails, inspect_exec has no exit code and `.expect` panics,
\* or the output is collected and the exit code stored.
exec_standalone_cmd_run ==
    /\ rd.pc = "none"
    /\ Len(calls) < MaxCalls
    /\ \E cmd \in StandaloneCmds :
          IF StandaloneAccepts(sb[S].status)
          THEN LET r == bash_c(split(cmd), StandaloneEnv(bash), <<>>)
                   result == CommandResult(r.out, r.status, FALSE)
               IN
               \/ /\ ~r.hangs
                  /\ sb' = [sb EXCEPT
                              ![S].last_standalone_exit_code = <<r.status>>]
                  /\ calls' = Append(calls, [Call("standalone", cmd) EXCEPT
                                                !.result = <<result>>,
                                                !.real_exit = <<r.status>>,
                                                !.real_out = r.out])
               \/ /\ \E e \in {"CreateExecFailed", "ContainerReadFailed",
                                 "panicked"} :
                        calls' = Append(calls, [Call("standalone", cmd) EXCEPT
                                                   !.err = e])
                  /\ UNCHANGED sb
          ELSE /\ calls' = Append(calls, [Call("standalone", cmd) EXCEPT
                                             !.err = "NotStarted"])
               /\ UNCHANGED sb
    /\ UNCHANGED <<stdin, units, bash, channel, rd>>
    /\ UNCHANGED lifeVars

\* mod.rs 453-461, the first part of Sandbox::stop: permit.take(), then the
\* match on the status; in Started and Exited remove_container is awaited.
Sandbox_stop_run ==
    /\ rd.pc = "none"
    /\ Len(calls) < MaxCalls
    /\ semaphore' = IF sb[S].permit THEN semaphore + 1 ELSE semaphore
    /\ sb' = [sb EXCEPT ![S].permit = FALSE]
    /\ IF StopAccepts(sb[S].status)
       THEN /\ rd' = [NoRead EXCEPT !.pc = "stop"]
            /\ UNCHANGED calls
       ELSE /\ calls' = Append(calls, [Call("stop", <<>>) EXCEPT
                                          !.err = "NotStarted"])
            /\ UNCHANGED rd
    /\ UNCHANGED <<stdin, units, bash, channel, containers>>
    /\ UNCHANGED <<sandboxes, minted, lock, pc, op, holds, snap, infos, resp,
                   nreq, removedDone, reaper, max_sandboxes, attempts>>

\* mod.rs 462-477: remove_container returns, its error is ignored; then
\* the status is Stopped and the streams are dropped.
remove_container_run ==
    /\ rd.pc = "stop"
    /\ \E ok \in BOOLEAN :
          containers' =
              IF ok THEN [containers EXCEPT ![sb[S].status.cid] = "removed"]
              ELSE containers
    /\ sb' = [sb EXCEPT ![S].status = Stopped,
                        ![S].input = FALSE,
                        ![S].output_receiver = FALSE]
    /\ calls' = Append(calls, Call("stop", <<>>))
    /\ rd' = NoRead
    /\ UNCHANGED <<stdin, units, bash, channel, semaphore>>
    /\ UNCHANGED <<sandboxes, minted, lock, pc, op, holds, snap, infos, resp,
                   nreq, removedDone, reaper, max_sandboxes, attempts>>

NextSess ==
    \/ exec_session_cmd_write
    \/ read_stream_until_idle_chunk
    \/ read_stream_until_idle_closed
    \/ read_stream_until_idle_idle
    \/ read_stream_until_idle_timeout
    \/ exec_standalone_cmd_run
    \/ Sandbox_stop_run
    \/ remove_container_run
    \/ bash_read
    \/ bash_wake
    \/ bash_print
    \/ Wait

SessSpec == InitSess /\ [][NextSess]_vars

\* The step of read_stream_until_idle_chunk, told by what it does to the
\* channel: within the overall timeout the reader takes a chunk off it.
ChunkTaken ==
    /\ rd.pc = "read"
    /\ rd.elapsed < IdlePerOverall
    /\ \E k \in 1..Len(channel) :
          channel' = SubSeq(channel, k + 1, Len(channel))

\* The step of read_stream_until_idle_idle, told by what it does to the
\* reader and to the shell: an idle timeout goes by, and the read goes on or
\* returns its buffer.
IdleTaken ==
    /\ rd.pc = "read"
    /\ rd.elapsed < IdlePerOverall
    /\ channel = <<>>
    /\ ~bash.gone
    /\ ~bash.printing
    /\ ~BashReady
    /\ bash' = Tick(bash)
    /\ rd' \in {NoRead, [rd EXCEPT !.elapsed = @ + 1]}

\* The reading loop is a running task and the guest's shell a running
\* process: neither stops for ever while it has a step to take. When the
\* shell dies is left open; that it has died is seen by the next read.
LiveSessSpec ==
    /\ SessSpec
    /\ WF_channel(ChunkTaken)
    /\ WF_vars(bash.gone /\ read_stream_until_idle_closed)
    /\ WF_rd(IdleTaken)
    /\ WF_vars(read_stream_until_idle_timeout)
    /\ WF_vars(bash_read)
    /\ WF_vars(bash_wake)
    /\ WF_vars(bash_print)

\* ------------------------------------------ the extraction of the exit code
\* Number of pieces of the texts strip_markers_and_extract_exit_code is
\* applied to.
MaxPieces == 3

\* What the guest can print and strip_str lets through: prompts of the
\* shell, the markers alone, the two parts of a marker, prompt-like texts
\* with an overlong run of digits or a digit that is not ASCII, and plain
\* characters.
Pieces ==
    {PS1(0), PS1(1), PS1_MARKER \o <<LongDigits, ":">>,
     PS1_MARKER \o <<ArabicDigit, ":">>, PS1_MARKER, EXIT_MARKER, PS2,
     <<"#PS1-">>, <<"#EXIT-">>, <<MarkerTail>>,
     <<"a">>, <<"1">>, <<":">>, <<"\n">>, <<NBSP>>}

RECURSIVE Flatten(_)
Flatten(q) == IF q = <<>> THEN <<>> ELSE Head(q) \o Flatten(Tail(q))

Texts == {Flatten(q) : q \in UNION {[1..n -> Pieces] : n \in 0..MaxPieces}}

\* StripSpec starts where the read of an exec_session call on the started
\* sandbox S is about to hand a text to the extraction.
InitStrip ==
    /\ max_sandboxes = MaxConcurrent
    /\ sandboxes = {S}
    /\ sb = [s \in Ids |-> IF s = S THEN SessSandbox ELSE SandboxNew]
    /\ semaphore = max_sandboxes - 1
    /\ containers = <<"running">>
    /\ minted = {S}
    /\ lock = [s \in Ids |-> NoTask]
    /\ pc = [t \in Tasks |-> "idle"]
    /\ op = [t \in Tasks |-> NoOp]
    /\ holds = [t \in Tasks |-> FALSE]
    /\ attempts = [t \in Tasks |-> 0]
    /\ snap = [t \in Tasks |-> {}]
    /\ infos = [t \in Tasks |-> {}]
    /\ resp = NoResp
    /\ nreq = 0
    /\ removedDone = {}
    /\ reaper = NoReaper
    /\ stdin = <<>>
    /\ bash = FreshShell
    /\ channel = <<>>
    /\ units = 1
    /\ \E text \in Texts :
          /\ calls = <<[Call("session", <<"cat f">>) EXCEPT
                          !.first = 1, !.last = 1, !.received = text]>>
          /\ rd = [NoRead EXCEPT !.pc = "read", !.attempt = 1, !.n = 1,
                                 !.accumulated = text]

\* mod.rs 384: strip_markers_and_extract_exit_code(&output) and what
\* exec_session_cmd does with its value.
strip_markers_apply ==
    /\ rd.pc = "read"
    /\ ExecSessionOk(rd.accumulated)
    /\ UNCHANGED <<stdin, units, bash, channel>>
    /\ UNCHANGED lifeVars

StripSpec == InitStrip /\ [][strip_markers_apply]_vars


\* ============================================================== idle reaper
\* Number of passes of the reaper (it loops for ever, once a minute).
MaxReaps == 1

\* The orders in which an iteration over a HashMap can visit the keys.
Orders(set) ==
    {q \in [1..Cardinality(set) -> set] :
        \A i, j \in 1..Cardinality(set) : i # j => q[i] # q[j]}

\* The reaper goes on with the rest of its removal list, or has finished
\* the pass and sleeps.
ReaperGoes(rest) ==
    IF rest = <<>>
    THEN [NoReaper EXCEPT !.passes = reaper.passes + 1]
    ELSE [reaper EXCEPT !.pc = "remove", !.to_remove = rest,
                        !.todo = <<>>, !.cur = Unknown]

\* main.rs 168-173 (and 182-184 when the map is empty): the sleep is over;
\* the reaper locks the registry and starts to iterate over it.
reaper_wake ==
    /\ reaper.pc = "sleep"
    /\ reaper.passes < MaxReaps
    /\ \E order \in Orders(sandboxes) :
          reaper' = IF order = <<>>
                    THEN ReaperGoes(<<>>)
                    ELSE [reaper EXCEPT !.pc = "scan", !.todo = order]
    /\ resp' = NoResp
    /\ UNCHANGED <<sandboxes, sb, minted, semaphore, lock, containers, pc,
                   op, holds, snap, infos, nreq, removedDone, max_sandboxes, attempts>>
    /\ UNCHANGED sessVars

\* main.rs 173-182: still holding the registry, the reaper waits for the
\* lock of the next sandbox, reads its start_time and compares the elapsed
\* time with the timeout; after the last sandbox it drops the registry.
reaper_scan ==
    /\ reaper.pc = "scan"
    /\ LET s == Head(reaper.todo) IN
       /\ lock[s] = NoTask
       /\ \E expired \in BOOLEAN :
             /\ expired => sb[s].start_time
             /\ LET found == IF expired THEN Append(reaper.to_remove, s)
                             ELSE reaper.to_remove
                IN reaper' =
                     IF Tail(reaper.todo) = <<>>
                     THEN ReaperGoes(found)
                     ELSE [reaper EXCEPT !.todo = Tail(@),
                                         !.to_remove = found]
    /\ resp' = NoResp
    /\ UNCHANGED <<sandboxes, sb, minted, semaphore, lock, containers, pc,
                   op, holds, snap, infos, nreq, removedDone, max_sandboxes, attempts>>
    /\ UNCHANGED sessVars

\* main.rs 184-191: the next id of the list is taken out of the registry,
\* unless a stop has removed it in the meantime.
reaper_remove ==
    /\ reaper.pc = "remove"
    /\ LET id == Head(reaper.to_remove) IN
       IF id \in sandboxes
       THEN /\ sandboxes' = sandboxes \ {id}
            /\ reaper' = [reaper EXCEPT !.pc = "reap_lock", !.cur = id,
                                        !.to_remove = Tail(@)]
       ELSE /\ reaper' = ReaperGoes(Tail(reaper.to_remove))
            /\ UNCHANGED sandboxes
    /\ resp' = NoResp
    /\ UNCHANGED <<sb, minted, semaphore, lock, containers, pc, op, holds,
                   snap, infos, nreq, removedDone, max_sandboxes, attempts>>
    /\ UNCHANGED sessVars

\* main.rs 193: if let SandboxStatus::Started(_) = sandbox.get_status()
ReaperStops(st) == st.tag = "Started"

\* main.rs 192-196 and mod.rs 453-460: the reaper locks the sandbox and,
\* if it is Started, calls stop(), which takes the permit and asks the host
\* to remove the container; otherwise it lets go of the sandbox.
reaper_stop ==
    /\ reaper.pc = "reap_lock"
    /\ LET s == reaper.cur IN
       /\ lock[s] = NoTask
       /\ IF ReaperStops(sb[s].status)
          THEN /\ semaphore' = IF sb[s].permit THEN semaphore + 1
                               ELSE semaphore
               /\ sb' = [sb EXCEPT ![s].permit = FALSE]
               /\ lock' = [lock EXCEPT ![s] = Reaper]
               /\ reaper' = [reaper EXCEPT !.pc = "reap_remove"]
          ELSE /\ semaphore' = semaphore + ArcDrop(Reaper, {s})
               /\ reaper' = ReaperGoes(reaper.to_remove)
               /\ UNCHANGED <<sb, lock>>
    /\ resp' = NoResp
    /\ UNCHANGED <<sandboxes, minted, containers, pc, op, holds, snap, infos,
                   nreq, removedDone, max_sandboxes, attempts>>
    /\ UNCHANGED sessVars

\* mod.rs 461-477 called from main.rs 194: remove_container(force), whose
\* error is ignored; Stopped, streams dropped; then the guard and the Arc
\* go out of scope.
reaper_remove_container ==
    /\ reaper.pc = "reap_remove"
    /\ LET s == reaper.cur
           c == sb[s].status.cid IN
       /\ \E ok \in BOOLEAN :
             containers' = IF ok /\ c \in DOMAIN containers
                           THEN [containers EXCEPT ![c] = "removed"]
                           ELSE containers
       /\ sb' = [sb EXCEPT ![s] = Sandbox_stopped(@)]
       /\ lock' = [lock EXCEPT ![s] = NoTask]
    /\ reaper' = ReaperGoes(reaper.to_remove)
    /\ resp' = NoResp
    /\ UNCHANGED <<sandboxes, minted, semaphore, pc, op, holds, snap, infos,
                   nreq, removedDone, max_sandboxes, attempts>>
    /\ UNCHANGED sessVars

\* -------------------------------------------------------------------- Next
Next ==
    \/ \E t \in Tasks :
          \/ Request(t)
          \/ create_sandbox(t)
          \/ start_sandbox_acquire(t)
          \/ start_sandbox_get(t)
          \/ Sandbox_start(t)
          \/ create_and_start_container(t)
          \/ start_container(t)
          \/ inspect_container(t)
          \/ run_setup_commands(t)
          \/ attach_and_configure_shell(t)
          \/ attach_and_configure_shell_return(t)
          \/ exec_cmd_get(t)
          \/ exec_session_cmd(t)
          \/ exec_session_cmd_return(t)
          \/ exec_standalone_cmd(t)
          \/ exec_standalone_cmd_return(t)
          \/ stop_sandbox_get(t)
          \/ Sandbox_stop(t)
          \/ remove_container(t)
          \/ get_trajectory_get(t)
          \/ get_trajectory(t)
          \/ get_trajectory_formatted_get(t)
          \/ get_trajectory_formatted(t)
          \/ list_sandboxes_snapshot(t)
          \/ list_sandboxes_read(t)
          \/ list_sandboxes(t)
    \* main.rs 163-199: serve_command spawns the reaper before it serves
    \/ reaper_wake
    \/ reaper_scan
    \/ reaper_remove
    \/ reaper_stop
    \/ reaper_remove_container

\* The server: its request handlers and its reaper.
Spec == Init /\ [][Next]_vars

\* A step of the handler that runs in task t.
Handler(t) ==
    \/ create_sandbox(t)
    \/ start_sandbox_acquire(t)
    \/ start_sandbox_get(t)
    \/ Sandbox_start(t)
    \/ create_and_start_container(t)
    \/ start_container(t)
    \/ inspect_container(t)
    \/ run_setup_commands(t)
    \/ attach_and_configure_shell(t)
    \/ attach_and_configure_shell_return(t)
    \/ exec_cmd_get(t)
    \/ exec_session_cmd(t)
    \/ exec_session_cmd_return(t)
    \/ exec_standalone_cmd(t)
    \/ exec_standalone_cmd_return(t)
    \/ stop_sandbox_get(t)
    \/ Sandbox_stop(t)
    \/ remove_container(t)
    \/ get_trajectory_get(t)
    \/ get_trajectory(t)
    \/ get_trajectory_formatted_get(t)
    \/ get_trajectory_formatted(t)
    \/ list_sandboxes_snapshot(t)
    \/ list_sandboxes_read(t)
    \/ list_sandboxes(t)

\* A step of a pass of the reaper.
ReaperStep ==
    \/ reaper_scan
    \/ reaper_remove
    \/ reaper_stop
    \/ reaper_remove_container

\* The handlers and the reaper are tokio tasks that keep running, the calls
\* to the container host return, and tokio's Mutex and Semaphore serve their
\* waiters in turn: a task that can take a step again and again takes it.
\* Clients need not send further requests and the reaper need not wake.
\* The server is configured with the largest capacity, under which the most
\* handlers run side by side and wait for each other's locks.
InitLargest ==
    /\ Init
    /\ max_sandboxes = MaxConcurrent

LiveReapSpec ==
    /\ InitLargest
    /\ [][Next]_vars
    /\ \A t \in Tasks : SF_vars(Handler(t))
    /\ SF_vars(ReaperStep)

TypeOK ==
    /\ sandboxes \subseteq minted
    /\ semaphore \in 0..max_sandboxes
    /\ \A s \in Ids : lock[s] \in Tasks \cup {NoTask, Reaper}

\* ================================================================== claims
Idle(s) == lock[s] = NoTask

\* C1: whenever no operation on a sandbox is in progress, the sandbox holds
\* a permit if and only if its status is Started or Exited.
C1_PermitIffStartedOrExited ==
    \A s \in minted :
        Idle(s) => (sb[s].permit <=> sb[s].status.tag \in {"Started", "Exited"})

\* C2: the number of containers in the running state never exceeds the
\* capacity of the admission semaphore.
C2_RunningAtMostCapacity == Cardinality(Running) <= max_sandboxes

\* The session calls that returned a result.
Returned(i) == calls[i].kind = "session" /\ calls[i].result # <<>>

\* The command of call i has run to its end in the shell.
Terminated(i) == calls[i].real_exit # <<>>

\* What the command of call i printed, as a client should get it.
OwnOutput(i) ==
    LET t == strip_str(calls[i].real_out)
        x == Find(t, EXIT_MARKER)
    IN  trim_end(IF x = 0 THEN t ELSE SubSeq(t, 1, x - 1))

\* C3: the exit_code of every result returned by exec_session, which is
\* also the one recorded in the trajectory, is the exit status the command
\* really had in the shell.
C3_ExitCodeIsReal ==
    /\ \A i \in 1..Len(calls) :
          Returned(i) /\ Terminated(i)
             => calls[i].result[1].exit_code = calls[i].real_exit[1]
    /\ \A k \in 1..Len(sb[S].trajectory) :
          \E i \in 1..Len(calls) :
             /\ Returned(i)
             /\ sb[S].trajectory[k].result = calls[i].result
             /\ sb[S].trajectory[k].command = calls[i].cmd

\* The call timed out on its first read and a nudge then brought a prompt.
Recovered(i) == Returned(i) /\ calls[i].timed_out

\* Nothing is running in the shell and nothing is waiting to be run.
ShellQuiet == ~bash.sleeping /\ stdin = <<>>

\* C4: after a call that timed out and was recovered by a nudge, every later
\* exec_session returns the output and exit code of its own command, and no
\* prompt of the earlier command or of the nudge is left unread.
C4_RecoveryKeepsSession ==
    /\ \A i, j \in 1..Len(calls) :
          i < j /\ Recovered(i) /\ Returned(j) /\ Terminated(j)
             => /\ calls[j].result[1].exit_code = calls[j].real_exit[1]
                /\ calls[j].result[1].output = OwnOutput(j)
    /\ (\E i \in 1..Len(calls) : Recovered(i)) /\ rd.pc = "none" /\ ShellQuiet
          => channel = <<>>

\* C5: an exec_session of `echo $?` that follows a session command returns
\* that command's exit code as its output, and exit_code 0.
C5_EchoReturnsPreviousExitCode ==
    \A j \in 2..Len(calls) :
        (/\ Returned(j - 1) /\ Terminated(j - 1)
         /\ ~calls[j - 1].result[1].exited
         /\ Returned(j)
         /\ calls[j].cmd = <<"echo $?">>)
        => /\ calls[j].result[1].output = Decimal(calls[j - 1].real_exit[1])
           /\ calls[j].result[1].exit_code = 0

\* A standalone execution is the last call made.
StandaloneRan == calls # <<>> /\ calls[Len(calls)].kind = "standalone"

\* C6: a standalone execution leaves the interactive shell as it was (its
\* input, its working directory, its $? and its output stream), and it
\* runs in a new process: `pwd` prints the image's working directory
\* whatever directory the session is in.
C6_StandaloneSharesNoShellState ==
    /\ [][Len(calls') > Len(calls) /\ calls'[Len(calls')].kind = "standalone"
             => UNCHANGED <<stdin, bash, channel>>]_vars
    /\ [](\A i \in 1..Len(calls) :
             (/\ calls[i].kind = "standalone"
              /\ calls[i].result # <<>>
              /\ calls[i].cmd = <<"pwd">>)
             => calls[i].result[1].output = <<FreshShell.cwd, "\n">>)

C6_Witness ==
    /\ StandaloneRan
    /\ calls[Len(calls)].cmd = <<"pwd">>
    /\ calls[Len(calls)].result # <<>>
    /\ bash.cwd = "/tmp"

\* The step of task t that leaves position p.
Leaves(t, p) == pc[t] = p /\ pc'[t] # p

\* C7: a start is accepted only in Created. A start that finds the sandbox
\* in Started, Exited or Stopped answers AlreadyStarted (400), creates no
\* container, leaves the sandbox as it was and gives its permit back (a
\* sandbox taken out of the registry meanwhile is dropped with the handler's
\* Arc, and its own permit goes back too); and a container is only ever
\* created for a sandbox found in Created.
C7_StartOnlyFromCreated ==
    [][\A t \in Tasks :
          /\ (Leaves(t, "start_lock")
                /\ sb[op[t].id].status.tag # "Created")
             => /\ resp'.task = t
                /\ resp'.err = "AlreadyStarted"
                /\ resp'.code = 400
                /\ containers' = containers
                /\ sb' = sb
                /\ holds[t] /\ ~holds'[t]
                /\ semaphore' = semaphore + 1 + ArcDrop(t, Held(t))
          /\ pc'[t] = "start_create" /\ pc[t] # "start_create"
             => sb[op[t].id].status.tag = "Created"]_vars

C7_Witness ==
    /\ resp.op.kind = "start"
    /\ resp.err = "AlreadyStarted"
    /\ sb[resp.op.id].status.tag = "Stopped"

\* C8: a stop is accepted only in Started or Exited, where it succeeds and
\* ends in Stopped; in Created or Stopped it answers NotStarted (400) and
\* changes neither the status, the trajectory nor the available permits.
C8_StopOnlyFromStartedOrExited ==
    [][\A t \in Tasks :
          LET s == op[t].id IN
          /\ (Leaves(t, "stop_lock")
                /\ sb[s].status.tag \in {"Started", "Exited"})
             => pc'[t] = "stop_remove"
          /\ (Leaves(t, "stop_lock")
                /\ sb[s].status.tag \in {"Created", "Stopped"})
             => /\ resp'.task = t
                /\ resp'.err = "NotStarted"
                /\ resp'.code = 400
                /\ sb'[s].status = sb[s].status
                /\ sb'[s].trajectory = sb[s].trajectory
                /\ semaphore' = semaphore
          /\ Leaves(t, "stop_remove")
             => /\ resp'.task = t
                /\ resp'.code = 200
                /\ sb'[s].status.tag = "Stopped"]_vars

\* The second of two stops on a sandbox kept in the registry.
C8_Witness ==
    /\ resp.op.kind = "stop"
    /\ ~resp.op.flag
    /\ resp.err = "NotStarted"
    /\ sb[resp.op.id].status.tag = "Stopped"

\* C9: Stopped is terminal. A stopped sandbox has no permit, no container id
\* and no streams; it stays stopped; every start, exec_session,
\* exec_standalone and stop that finds it stopped is rejected and creates
\* no container.
C9_StoppedIsTerminal ==
    /\ [](\A s \in Ids :
            sb[s].status.tag = "Stopped"
            => /\ ~sb[s].permit
               /\ ~sb[s].input
               /\ ~sb[s].output_receiver
               /\ sb[s].status.cid = NoCid)
    /\ [][/\ \A s \in Ids :
                sb[s].status.tag = "Stopped" => sb'[s].status.tag = "Stopped"
          /\ \A t \in Tasks :
                (/\ pc[t] \in {"start_lock", "exec_session",
                               "exec_standalone", "stop_lock"}
                 /\ pc'[t] # pc[t]
                 /\ sb[op[t].id].status.tag = "Stopped")
                => /\ resp'.task = t
                   /\ resp'.err \in {"AlreadyStarted", "NotStarted"}
                   /\ containers' = containers
                   /\ sb' = sb]_vars

\* A request was rejected by a stopped sandbox.
C9_Witness ==
    /\ resp.op.kind \in {"start", "exec"}
    /\ resp.code = 400
    /\ sb[resp.op.id].status.tag = "Stopped"

\* C10: once a stop with remove=true on an id has returned, every lookup of
\* that id (by start, exec, stop, trajectory, trajectory/formatted) answers
\* 404 and no list snapshot contains the id.
C10_RemovedIsGone ==
    [][\A t \in Tasks :
          /\ (/\ pc[t] \in {"start_get", "exec_get", "stop_get", "traj_get",
                            "fmt_get"}
              /\ pc'[t] # pc[t]
              /\ op[t].id \in removedDone)
             => /\ resp'.task = t
                /\ resp'.code = 404
          /\ Leaves(t, "list_snapshot") => snap'[t] \cap removedDone = {}]_vars

\* The start of the removed sandbox is answered with 404.
C10_Witness ==
    /\ resp.op.kind = "start"
    /\ resp.code = 404
    /\ resp.op.id \in removedDone

\* The registry lookups of the handlers that take an id.
LookupPcs == {"start_get", "exec_get", "stop_get", "traj_get", "fmt_get"}

\* C11: start, exec, stop, trajectory and trajectory/formatted on an id that
\* is not in the registry answer 404 and change neither the registry nor any
\* sandbox; the only permit that moves is the one the start handler took
\* itself, which goes back to the semaphore.
C11_UnknownIdIs404 ==
    [][\A t \in Tasks :
          (pc[t] \in LookupPcs /\ pc'[t] # pc[t] /\ op[t].id \notin sandboxes)
          => /\ resp'.task = t
             /\ resp'.code = 404
             /\ sandboxes' = sandboxes
             /\ sb' = sb
             /\ containers' = containers
             /\ holds[t] <=> op[t].kind = "start"
             /\ ~holds'[t]
             /\ semaphore' = IF holds[t] THEN semaphore + 1 ELSE semaphore]_vars

C11_Witness ==
    /\ resp.code = 404
    /\ resp.op.kind = "start"
    /\ sandboxes # {}
    /\ semaphore = max_sandboxes

\* Every permit is stored in a sandbox that still exists.
Saturated == Cardinality({s \in Alive : sb[s].permit}) = max_sandboxes

\* C12: a start for an id that is not in the registry never waits for a
\* permit while the sandboxes hold all of them.
C12_UnknownStartNeverWaits ==
    \A t \in Tasks :
        ~(/\ pc[t] = "start_acquire"
          /\ op[t].id \notin minted
          /\ Saturated
          /\ semaphore = 0)

\* The step is the first one of an exec_session call.
SessionCallStep ==
    Len(calls') > Len(calls) /\ calls'[Len(calls')].kind = "session"

\* C13: exec_session is accepted only in Started. In Exited it answers
\* AlreadyExited, in Created and Stopped NotStarted (both 400), and then
\* nothing is written to the shell and the sandbox is as it was.
C13_SessionOnlyInStarted ==
    [][SessionCallStep =>
          LET c == calls'[Len(calls')]
              tag == sb[S].status.tag
              Rejected(e) ==
                  /\ c.err = e
                  /\ to_status_code(e) = 400
                  /\ stdin' = stdin
                  /\ units' = units
                  /\ rd' = rd
                  /\ sb' = sb
          IN  /\ tag = "Started" =>
                    IF bash.gone
                    THEN c.err \in {"", "ContainerWriteFailed"}
                    ELSE c.err = "" /\ stdin' = stdin \o c.cmd \o <<"\n">>
              /\ tag = "Exited" => Rejected("AlreadyExited")
              /\ tag \in {"Created", "Stopped"} => Rejected("NotStarted")]_vars

C13_Witness ==
    /\ calls # <<>>
    /\ calls[Len(calls)].kind = "session"
    /\ calls[Len(calls)].err = "AlreadyExited"
    /\ sb[S].status.tag = "Exited"
    /\ sb[S].trajectory # <<>>

\* The step in which the exec_session call in progress gets its result.
SessionReturnStep ==
    /\ calls # <<>>
    /\ Len(calls') = Len(calls)
    /\ calls[Len(calls)].kind = "session"
    /\ calls[Len(calls)].result = <<>>
    /\ calls'[Len(calls)].result # <<>>

\* A step of exec_session_cmd: its first one, or one of its read loop.
SessionStep ==
    \/ SessionCallStep
    \/ rd.pc = "read" /\ (rd' # rd \/ Len(channel') < Len(channel))

\* C14: exec_session moves the sandbox from Started to Exited exactly when
\* the exit sentinel stands in the text read for the call, which is all the
\* text its reads took from the stream, and exactly then the result has
\* exited = true; no other step of exec_session changes the status.
C14_ExitedIffSentinelRead ==
    [][SessionStep =>
          IF SessionReturnStep
          THEN LET c == calls'[Len(calls)]
                   seen == Find(c.received, EXIT_MARKER) # 0
               IN  /\ sb[S].status.tag = "Started"
                   /\ c.result[1].exited <=> seen
                   /\ sb'[S].status = IF seen THEN Exited(sb[S].status.cid)
                                      ELSE sb[S].status
          ELSE sb'[S].status = sb[S].status]_vars

\* What the code does: the sentinel is looked for in the buffer the last
\* read returned, after the PS2 markers were taken out of it (io.rs 69-73).
C14_ExitedIffSentinelInBuffer ==
    [][SessionStep =>
          IF SessionReturnStep
          THEN LET c == calls'[Len(calls)]
                   seen == Find(replace(c.text, PS2_MARKER, 1),
                                EXIT_MARKER) # 0
               IN  /\ sb[S].status.tag = "Started"
                   /\ c.result[1].exited <=> seen
                   /\ sb'[S].status = IF seen THEN Exited(sb[S].status.cid)
                                      ELSE sb[S].status
          ELSE sb'[S].status = sb[S].status]_vars

\* The first call of the session ran the exit function and went on
\* running: the sentinel was read by the attempt that timed out, the read
\* after the newline returned the prompts only, and the call returned
\* exited = false with the sandbox still Started.
C14_SentinelReadButStarted ==
    /\ Len(calls) = 1
    /\ calls[1].cmd = <<"exit; sleep 3">>
    /\ calls[1].timed_out
    /\ calls[1].result # <<>>
    /\ Find(calls[1].received, EXIT_MARKER) # 0
    /\ Find(calls[1].text, EXIT_MARKER) = 0
    /\ ~calls[1].result[1].exited
    /\ sb[S].status.tag = "Started"

\* The first call of the session printed the two parts of the sentinel
\* with a PS2 marker between them: the sentinel is nowhere in the text that
\* was read, the removal of the PS2 markers made it, and the call returned
\* exited = true and moved the sandbox to Exited.
C14_ExitedWithoutSentinel ==
    /\ Len(calls) = 1
    /\ calls[1].cmd = SpliceCmd
    /\ calls[1].result # <<>>
    /\ Find(calls[1].received, EXIT_MARKER) = 0
    /\ Find(calls[1].real_out, EXIT_MARKER) = 0
    /\ calls[1].result[1].exited
    /\ sb[S].status.tag = "Exited"

\* A step of the exec_standalone_cmd of task t.
StandaloneStep(t) ==
    \/ Leaves(t, "exec_standalone")
    \/ Leaves(t, "exec_standalone_run")

\* C15: exec_standalone is accepted exactly in Started and Exited. A call
\* that succeeds stores the exit code it returns in
\* last_standalone_exit_code and answers exited = false; a call that fails
\* or is rejected (NotStarted, 400) leaves last_standalone_exit_code as it
\* was; no call changes the status, the trajectory, the streams or the
\* permit (permits come back only from a sandbox that left the registry
\* meanwhile and is dropped with the handler's Arc).
C15_StandaloneFrame ==
    [][\A t \in Tasks :
          StandaloneStep(t) =>
             LET s == op[t].id
                 ok == resp'.code = 200
             IN  /\ resp'.task = t \/ pc'[t] = "exec_standalone_run"
                 /\ sb'[s].status = sb[s].status
                 /\ sb'[s].trajectory = sb[s].trajectory
                 /\ sb'[s].input = sb[s].input
                 /\ sb'[s].output_receiver = sb[s].output_receiver
                 /\ sb'[s].permit = sb[s].permit
                 /\ semaphore' = IF pc'[t] = "exec_standalone_run"
                                 THEN semaphore
                                 ELSE semaphore + ArcDrop(t, Held(t))
                 /\ ok => /\ sb[s].status.tag \in {"Started", "Exited"}
                          /\ ~resp'.body[1].exited
                          /\ sb'[s].last_standalone_exit_code =
                                <<resp'.body[1].exit_code>>
                 /\ ~ok => sb'[s].last_standalone_exit_code =
                              sb[s].last_standalone_exit_code
                 /\ sb[s].status.tag \in {"Created", "Stopped"}
                       => resp'.err = "NotStarted" /\ resp'.code = 400
                 /\ sb[s].status.tag \in {"Started", "Exited"}
                       => resp'.err # "NotStarted"]_vars

C15_Witness ==
    /\ resp.op.kind = "exec"
    /\ resp.op.flag
    /\ resp.code = 200
    /\ sb[resp.op.id].status.tag = "Exited"
    /\ sb[resp.op.id].last_standalone_exit_code = <<1>>

\* Sequence a is an initial part of sequence b.
IsPrefix(a, b) == Len(a) <= Len(b) /\ SubSeq(b, 1, Len(a)) = a

\* C16: the trajectory is append-only: every step leaves the entries it
\* already has, results included, where they are, and only adds at the end.
C16_TrajectoryAppendOnly ==
    [][\A s \in Ids : IsPrefix(sb[s].trajectory, sb'[s].trajectory)]_vars

C16_Witness ==
    /\ Len(sb[S].trajectory) = 2
    /\ sb[S].trajectory[1].result # <<>>
    /\ sb[S].trajectory[1] # sb[S].trajectory[2]

\* The exec_session calls that passed the status check and wrote their
\* command.
Accepted == {i \in 1..Len(calls) : calls[i].kind = "session" /\ calls[i].first > 0}

\* C17: every accepted exec_session call has its entry in the trajectory
\* from the moment its command is written, whether or not it later gets a
\* result; a call that ended in an error has an entry without a result.
C17_EntryForEveryAcceptedCall ==
    /\ Len(sb[S].trajectory) = Cardinality(Accepted)
    /\ \A i \in Accepted :
          calls[i].err # ""
             => \E k \in 1..Len(sb[S].trajectory) :
                   /\ sb[S].trajectory[k].command = calls[i].cmd
                   /\ sb[S].trajectory[k].result = <<>>

\* An accepted call has ended in TimeoutWaitingForMarker and has no entry.
C17_TimedOutCallLeftNoEntry ==
    /\ calls # <<>>
    /\ calls[Len(calls)].err = "TimeoutWaitingForMarker"
    /\ sb[S].trajectory = <<>>

\* The step in which the exec_session call in progress gives up.
SessionTimeoutStep ==
    /\ calls # <<>>
    /\ Len(calls') = Len(calls)
    /\ calls[Len(calls)].err = ""
    /\ calls'[Len(calls)].err = "TimeoutWaitingForMarker"

\* C18: when the three reads of an exec_session call have timed out the call
\* answers TimeoutWaitingForMarker (504) and leaves the sandbox as it was:
\* Started, with its permit, its running container and its streams; and the
\* next stop on the sandbox succeeds.
C18_TimeoutLeavesStarted ==
    /\ [][SessionTimeoutStep =>
             /\ rd.attempt = 3
             /\ to_status_code(calls'[Len(calls)].err) = 504
             /\ sb' = sb
             /\ semaphore' = semaphore
             /\ containers' = containers
             /\ sb[S].status.tag = "Started"
             /\ sb[S].permit
             /\ sb[S].input /\ sb[S].output_receiver
             /\ containers[sb[S].status.cid] = "running"]_vars
    /\ [](\A i, j \in 1..Len(calls) :
             (/\ i < j
              /\ calls[i].err = "TimeoutWaitingForMarker"
              /\ calls[j].kind = "stop"
              /\ \A k \in (i + 1)..(j - 1) : calls[k].kind # "stop")
             => /\ calls[j].err = ""
                /\ sb[S].status = Stopped
                /\ ~sb[S].permit)

C18_Witness ==
    /\ Len(calls) >= 2
    /\ calls[Len(calls) - 1].err = "TimeoutWaitingForMarker"
    /\ calls[Len(calls)].kind = "stop"
    /\ calls[Len(calls)].err = ""
    /\ sb[S].status = Stopped

\* The step of task t in which its start fails before a container exists:
\* the image pull fails, or create_container fails.
StartFailsBeforeCreation(t) ==
    /\ Leaves(t, "start_create")
    /\ containers' = containers

\* C19: a start that fails before a container has been created leaves the
\* sandbox in Created, without container id, streams or permit, gives the
\* permit it was handed back to the semaphore and releases the sandbox, so
\* that a later start is accepted.
C19_EarlyStartFailureKeepsCreated ==
    [][\A t \in Tasks :
          StartFailsBeforeCreation(t) =>
             LET s == op[t].id IN
             /\ resp'.task = t
             /\ resp'.code \in {400, 500}
             /\ sb' = sb
             /\ sb[s].status = Created
             /\ ~sb[s].input /\ ~sb[s].output_receiver /\ ~sb[s].permit
             /\ holds[t] /\ ~holds'[t]
             /\ semaphore' = semaphore + 1
             /\ lock'[s] = NoTask
             /\ StartAccepts(sb'[s].status)]_vars

C19_Witness ==
    /\ resp.op.kind = "start"
    /\ resp.err = "PullImageFailed"
    /\ sb[resp.op.id].status = Created
    /\ semaphore = max_sandboxes
    /\ lock[resp.op.id] = NoTask

\* The step of task t in which its start fails after the container has been
\* created: the container does not get to run, the setup commands fail, or
\* the shell cannot be attached and configured.
StartFailsAfterCreation(t) ==
    /\ resp'.task = t
    /\ resp'.code # 200
    /\ \/ Leaves(t, "start_run")
       \/ Leaves(t, "start_inspect")
       \/ Leaves(t, "start_setup")
       \/ Leaves(t, "start_attach")
       \/ Leaves(t, "start_configure")

\* C20: a start that fails after the container has been created removes the
\* container and leaves the sandbox in Stopped, with no permit and no
\* running container. (No removal can fail in these steps: Sandbox::start
\* calls no remove_container.)
C20_LateStartFailureEndsStopped ==
    [][\A t \in Tasks :
          StartFailsAfterCreation(t) =>
             LET s == op[t].id IN
             /\ sb'[s].status = Stopped
             /\ ~sb'[s].permit
             /\ \A c \in Running' : sb[s].status.cid # c
                                       /\ sb'[s].status.cid # c]_vars

\* A start has failed on its setup commands and has left the sandbox
\* Started, without permit, its container running.
C20_FailedStartLeftRunning ==
    /\ resp.op.kind = "start"
    /\ resp.err = "SetupCommandsFailed"
    /\ sb[resp.op.id].status.tag = "Started"
    /\ ~sb[resp.op.id].permit
    /\ sb[resp.op.id].status.cid \in Running
    /\ semaphore = max_sandboxes

\* The streams and the timestamp of sandbox s agree with its status.
StreamsMatchStatus(s) ==
    /\ sb[s].status.tag \in {"Started", "Exited"}
          => sb[s].input /\ sb[s].output_receiver
    /\ sb[s].status.tag \in {"Created", "Stopped"}
          => ~sb[s].input /\ ~sb[s].output_receiver
    /\ sb[s].status.tag = "Started" => sb[s].start_time

\* C21: whenever no operation on a sandbox is in progress, its stdin sink
\* and its output receiver are both present if its status is Started or
\* Exited and both absent if it is Created or Stopped, and its start
\* timestamp is set whenever its status is Started.
C21_StreamsIffStartedOrExited ==
    \A s \in minted : Idle(s) => StreamsMatchStatus(s)

\* A start has failed on its setup commands: the sandbox is idle and
\* Started, and has neither streams nor a start timestamp.
C21_StartedWithoutStreams ==
    /\ resp.op.kind = "start"
    /\ resp.err = "SetupCommandsFailed"
    /\ Idle(resp.op.id)
    /\ sb[resp.op.id].status.tag = "Started"
    /\ ~sb[resp.op.id].input
    /\ ~sb[resp.op.id].output_receiver
    /\ ~sb[resp.op.id].start_time

\* Only a start that fails after the creation of its container takes an
\* idle sandbox out of the agreement of C21.
C21_BrokenOnlyByLateStartFailure ==
    [][\A s \in minted :
          (Idle(s)' /\ ~StreamsMatchStatus(s)'
                    /\ (Idle(s) => StreamsMatchStatus(s)))
             => \E t \in Tasks : op[t].id = s /\ StartFailsAfterCreation(t)]_vars

\* The ids a list in progress has snapshotted: those still to be read and
\* those already read.
Listed(t) == snap[t] \cup {i.id : i \in infos[t]}

\* C22: create inserts a sandbox with a fresh id and status Created without
\* contacting the container host or taking a permit; and a list whose
\* snapshot is taken after that (every id that was created and neither
\* removed nor started and reaped is in the registry it snapshots) answers with one entry for every id of
\* its snapshot, with status "created" for each one that is still Created.
C22_CreateThenListShowsCreated ==
    [][/\ \A t \in Tasks :
             /\ Leaves(t, "create")
                => LET id == resp'.body[1] IN
                   /\ resp'.task = t /\ resp'.code = 200
                   /\ id \notin minted
                   /\ sandboxes' = sandboxes \cup {id}
                   /\ sb'[id] = SandboxNew
                   /\ sb'[id].status = Created
                   /\ containers' = containers
                   /\ semaphore' = semaphore
                   /\ holds' = holds
             /\ Leaves(t, "list_snapshot") => Listed(t)' = sandboxes
             /\ (pc[t] = "list_read" /\ pc'[t] = "list_read")
                => Listed(t)' = Listed(t)
             /\ Leaves(t, "list_read")
                => /\ resp'.task = t /\ resp'.code = 200
                   /\ {i.id : i \in resp'.body} = Listed(t)
                   /\ \A i \in resp'.body :
                         sb[i.id].status = Created => i.status = "created"
       /\ \A s \in minted' \ sandboxes' :
             \/ s \in removedDone'
             \/ \E t \in Tasks : /\ op'[t] = [kind |-> "stop", id |-> s,
                                              flag |-> TRUE]
                                 /\ pc'[t] \in {"stop_lock", "stop_remove"}
             \* the reaper takes out only sandboxes that have been started
             \/ sb'[s].start_time]_vars

\* A list has answered with a sandbox that is Created, as "created".
C22_Witness ==
    /\ resp.op.kind = "list"
    /\ \E i \in resp.body : i.status = "created" /\ sb[i.id].status = Created

\* Task t is between the first and the last step of a start, exec or stop on
\* sandbox s: it is suspended inside the Sandbox method.
InOperation(t, s) ==
    /\ op[t].id = s
    /\ pc[t] \in {"start_create", "start_run", "start_inspect", "start_setup",
                  "start_attach", "start_configure", "exec_session_read",
                  "exec_standalone_run", "stop_remove"}

\* The next step of task u locks sandbox s to read or write it.
WaitsFor(u, s) ==
    /\ op[u].id = s
    /\ pc[u] \in {"start_lock", "exec_session", "exec_standalone",
                  "stop_lock", "traj_read", "fmt_read"}

\* C23: operations on the same sandbox never overlap. At most one task is
\* inside an operation on a sandbox and it owns the sandbox's lock; while it
\* is there, only its own steps change the sandbox, and no other task that
\* is about to lock the sandbox (start, exec, stop, trajectory, or the read
\* of a list) takes its step. So the write and the read of one session
\* command are both done before the next session command's write.
C23_OperationsNeverOverlap ==
    [][\A s \in Ids, t \in Tasks :
          /\ InOperation(t, s)' =>
                /\ lock'[s] = t
                /\ \A u \in Tasks : InOperation(u, s)' => u = t
          /\ InOperation(t, s) =>
                /\ sb'[s] # sb[s] => pc'[t] # pc[t]
                /\ \A u \in Tasks \ {t} :
                      /\ WaitsFor(u, s) => pc'[u] = pc[u]
                      /\ s \in snap[u] => s \in snap'[u]]_vars

\* A session command has been written and is being read while a second
\* session command on the same sandbox waits for the lock.
C23_Witness ==
    \E t \in Tasks, u \in Tasks :
        /\ t # u
        /\ pc[t] = "exec_session_read"
        /\ InOperation(t, op[t].id)
        /\ pc[u] = "exec_session"
        /\ WaitsFor(u, op[t].id)

\* The positions at which a handler needs the registry's lock for its next
\* step (insert, lookup, remove or snapshot).
RegistryPcs ==
    {"create", "start_get", "exec_get", "stop_get", "traj_get", "fmt_get",
     "list_snapshot"}

\* C24: the registry's lock is held only for the map operation itself and
\* never while its holder waits for the lock of a sandbox or for the
\* container host: whoever holds it across steps (only the reaper's scan
\* does) can take its next step at once, so no request is kept from the
\* registry by an operation in progress on some sandbox.
C24_RegistryNeverHeldWhileWaiting ==
    ~RegistryFree => lock[Head(reaper.todo)] = NoTask

\* The reaper holds the registry and waits for a sandbox that a start has
\* locked, and an exec for a different sandbox waits for the registry.
C24_RequestDelayedByReaper ==
    /\ reaper.pc = "scan"
    /\ \E t \in Tasks, u \in Tasks :
          /\ lock[Head(reaper.todo)] = t
          /\ pc[t] = "start_create"
          /\ pc[u] \in RegistryPcs
          /\ op[u].kind = "exec"
          /\ op[u].id \in sandboxes \ {Head(reaper.todo)}

\* The step in which the reaper has locked the sandbox it evicted and
\* either calls stop() or lets go of it.
ReaperDecides == reaper.pc = "reap_lock" /\ reaper'.pc # "reap_lock"

\* C25: every sandbox the reaper found expired is taken out of the registry
\* and, when its status is Started or Exited, stop() is called on it: the
\* permit is taken, the removal of the container is requested and the
\* sandbox ends in Stopped.
C25_ReaperStopsStartedAndExited ==
    [][/\ ReaperDecides =>
             LET s == reaper.cur IN
             /\ s \notin sandboxes
             /\ sb[s].status.tag \in {"Started", "Exited"}
                   => /\ reaper'.pc = "reap_remove"
                      /\ lock'[s] = Reaper
                      /\ ~sb'[s].permit
       /\ (reaper.pc = "reap_remove" /\ reaper'.pc # "reap_remove")
             => sb'[reaper.cur].status = Stopped]_vars

\* The reaper has finished its pass; a sandbox it evicted is out of the
\* registry, still Exited, and its container is still running.
C25_EvictedExitedStillRunning ==
    /\ reaper.pc = "sleep"
    /\ reaper.passes = 1
    /\ \E s \in minted \ (sandboxes \cup removedDone) :
          /\ sb[s].status.tag = "Exited"
          /\ sb[s].status.cid \in Running
          /\ \A t \in Tasks : op[t].kind # "stop"

\* C26: a stop on a sandbox in Started or Exited takes the permit back to
\* the semaphore, answers 200 and ends in Stopped with the streams dropped,
\* whether or not the container host removes the container; with
\* remove=true the entry is out of the registry in either case.
C26_StopSucceedsWhenRemovalFails ==
    [][\A t \in Tasks :
          LET s == op[t].id IN
          /\ (Leaves(t, "stop_lock") /\ StopAccepts(sb[s].status))
                => /\ pc'[t] = "stop_remove"
                   /\ ~sb'[s].permit
                   /\ semaphore' = semaphore + (IF sb[s].permit THEN 1 ELSE 0)
          /\ Leaves(t, "stop_remove")
                => /\ resp'.task = t
                   /\ resp'.code = 200
                   /\ sb'[s].status = Stopped
                   /\ ~sb'[s].permit
                   /\ ~sb'[s].input /\ ~sb'[s].output_receiver
                   /\ lock'[s] = NoTask
                   /\ op[t].flag => s \notin sandboxes']_vars

\* A stop with remove=true has answered 200 although the host did not
\* remove the container: the only container ever created still runs.
C26_Witness ==
    /\ resp.op.kind = "stop"
    /\ resp.op.flag
    /\ resp.code = 200
    /\ resp.op.id \notin sandboxes
    /\ sb[resp.op.id].status = Stopped
    /\ ~sb[resp.op.id].permit
    /\ semaphore = max_sandboxes
    /\ containers = <<"running">>

\* shell.rs 7, 10 and 22: the marker that CONF_CMD puts into PS1 of the
\* shell of sandbox s; the id of the sandbox is not an input of it.
ConfiguredMarker(s) == PS1_MARKER

\* io.rs 105-110 and 19: the marker that the reads of sandbox s match.
MatchedMarker(s) == PS1_MARKER

\* C27: the PS1 marker a sandbox configures in its shell and matches in its
\* output depends on the sandbox: any two distinct sandboxes use different
\* markers.
C27_MarkersDifferBetweenSandboxes ==
    \A a \in minted, b \in minted :
        a # b => /\ ConfiguredMarker(a) # ConfiguredMarker(b)
                 /\ MatchedMarker(a) # MatchedMarker(b)

\* Two sandboxes are in the registry and the marker of one is the marker
\* the other matches.
C27_TwoSandboxesOneMarker ==
    \E a \in sandboxes, b \in sandboxes :
        /\ a # b
        /\ ConfiguredMarker(a) = MatchedMarker(b)
        /\ MatchedMarker(a) = MatchedMarker(b)

\* The pure-comment command of SessionCmds.
Comment == <<"# c">>

\* C28: in any session state, whatever the exit code of the previous
\* session command, an exec_session of a pure-comment command returns
\* output "", exit_code 0 and exited = false.
C28_CommentReturnsZero ==
    \A i \in 1..Len(calls) :
        (Returned(i) /\ calls[i].cmd = Comment)
           => calls[i].result[1] = CommandResult(<<>>, 0, FALSE)

\* `false` has returned exit_code 1 on its first read, and the comment sent
\* after it has returned output "" and exit_code 1.
C28_CommentReturnedPreviousCode ==
    /\ Len(calls) = 2
    /\ calls[1].cmd = <<"false">>
    /\ Returned(1) /\ ~calls[1].timed_out
    /\ calls[1].result[1] = CommandResult(<<>>, 1, FALSE)
    /\ calls[2].cmd = Comment
    /\ Returned(2) /\ ~calls[2].timed_out
    /\ calls[2].result[1] = CommandResult(<<>>, 1, FALSE)


\* The nudges the running exec_session call has written so far.
Nudges == Len(calls[Len(calls)].nudges)

\* The read in progress has reached its overall timeout.
ReadTimedOut == rd.pc = "read" /\ rd.elapsed >= IdlePerOverall

\* The call in progress writes the nudge `text`; it reaches the shell's
\* input unless the terminal discards it.
NudgeWritten(text) ==
    /\ calls'[Len(calls)].nudges = Append(calls[Len(calls)].nudges, text)
    /\ stdin' = IF TtyKeeps(text) THEN stdin \o text ELSE stdin

\* The write of a nudge failed: nothing is written, no read follows and the
\* call returns ContainerWriteFailed.
NudgeWriteFailed ==
    /\ calls'[Len(calls)].nudges = calls[Len(calls)].nudges
    /\ rd'.pc = "none"
    /\ calls'[Len(calls)].err = "ContainerWriteFailed"

\* C29: only a read that timed out is followed by a nudge: a bare newline
\* after the first read, Ctrl-D after the second, each followed by a read
\* with n = 1 unless the write itself fails and ends the call, and an error
\* after the third; a read that succeeds or fails otherwise writes nothing,
\* so a call writes at most two nudges and performs at most three reads.
C29_NudgesOnlyAfterTimeouts ==
    [][/\ rd'.pc = "read" => rd'.attempt \in 1..3 /\ Nudges' = rd'.attempt - 1
       /\ rd.pc = "read" /\ rd' # rd =>
            IF ReadTimedOut /\ rd.attempt = 1
            THEN \/ /\ NudgeWritten(<<"\n">>)
                    /\ rd'.pc = "read" /\ rd'.attempt = 2 /\ rd'.n = 1
                 \/ NudgeWriteFailed
            ELSE IF ReadTimedOut /\ rd.attempt = 2
            THEN \/ /\ NudgeWritten(<<CTRL_D>>)
                    /\ rd'.pc = "read" /\ rd'.attempt = 3 /\ rd'.n = 1
                 \/ NudgeWriteFailed
            ELSE /\ calls'[Len(calls)].nudges = calls[Len(calls)].nudges
                 /\ Len(stdin') <= Len(stdin)
                 /\ rd'.pc = "read" => rd'.attempt = rd.attempt
                 /\ ReadTimedOut =>
                      /\ rd'.pc = "none"
                      /\ calls'[Len(calls)].err = "TimeoutWaitingForMarker"
                 /\ rd'.pc = "none" /\ ~ReadTimedOut =>
                      \/ calls'[Len(calls)].result # <<>>
                      \/ calls'[Len(calls)].err = "ContainerReadFailed"]_vars

\* A call wrote both nudges and timed out a third time, a second call
\* failed on a closed stream without any.
C29_Witness ==
    /\ Len(calls) = 2
    /\ rd.pc = "none"
    /\ calls[1].cmd = <<"echo \"">>
    /\ calls[1].err = "TimeoutWaitingForMarker"
    /\ calls[1].last = 1 /\ calls[2].first = 4
    /\ calls[2].err = "ContainerReadFailed" /\ units = calls[2].last


\* The number of PS1 markers in a text.
MarkerCount(text) == Len(find_iter(text, 1))

\* The read in progress returns its buffer in this step.
ReadReturns ==
    rd.pc = "read" /\ rd'.pc = "none" /\ calls'[Len(calls)].text # <<>>

\* C30: a read returns its buffer only on a chunk that brings the number of
\* PS1 markers in the text to the hint n or above, or on an idle timeout
\* when the text has at least one PS1 marker; a returned buffer always has a
\* PS1 marker, and a read still going has seen fewer markers than n.
C30_BufferReturnedOnlyWithMarker ==
    [][/\ rd'.pc = "read" =>
            /\ rd'.n >= 1
            /\ rd'.markers_seen = MarkerCount(rd'.accumulated)
            /\ rd'.markers_seen < rd'.n
       /\ ReadReturns =>
            LET buf == calls'[Len(calls)].text IN
            /\ MarkerCount(buf) >= 1
            /\ \/ /\ channel' # channel
                  /\ MarkerCount(buf) > MarkerCount(rd.accumulated)
                  /\ MarkerCount(buf) >= rd.n
               \/ /\ channel = <<>> /\ channel' = <<>>
                  /\ buf = rd.accumulated]_vars

\* A two-line command returned on an idle timeout with one marker of the
\* two it waited for.
C30_Witness ==
    /\ rd.pc = "none"
    /\ Len(calls) = 1 /\ Returned(1)
    /\ n_commands_hint(calls[1].cmd) = 2
    /\ MarkerCount(calls[1].text) = 1


\* C31: every read of an exec_session call comes to an end, by returning
\* its buffer, by the overall timeout or by the closed stream, also when the
\* shell prints without end and no marker comes, and when it prints nothing;
\* so every call ends with a result or an error.
C31_EveryReadTerminates ==
    \A a \in 1..3 :
        (rd.pc = "read" /\ rd.attempt = a)
            ~> (rd.pc = "none" \/ (rd.pc = "read" /\ rd.attempt = a + 1))

\* The call of the command that prints without end has ended by the overall
\* timeout of its third read.
C31_Witness ==
    /\ Len(calls) = 1
    /\ rd.pc = "none"
    /\ bash.printing
    /\ calls[1].err = "TimeoutWaitingForMarker"
    /\ Len(calls[1].real_out) >= 3 * IdlePerOverall


\* The step in which an exec_session call writes its command and starts its
\* first read.
FirstReadStarts == rd.pc = "none" /\ rd'.pc = "read"

\* C32: the hint an exec_session call passes to its first read is the
\* number of line feeds in its command.
C32_HintIsNewlineCount ==
    [][FirstReadStarts =>
          rd'.n = Count(calls'[Len(calls')].cmd, "\n")]_vars

\* A command with one line feed is read with the hint 2.
C32_HintIsOneMore ==
    /\ rd.pc = "read"
    /\ rd.attempt = 1
    /\ Count(calls[Len(calls)].cmd, "\n") = 1
    /\ rd.n = 2

\* C32 as the code has it: the hint is the number of line feeds and one,
\* the number of lines of the command.
C32_HintIsLineCount ==
    [][FirstReadStarts =>
          rd'.n = Count(calls'[Len(calls')].cmd, "\n") + 1]_vars


\* The places of a text where a PS1-marker match (marker, digits, colon)
\* begins.
MatchStarts(text) == {i \in 1..Len(text) : MatchEnd(text, i) # 0}

\* The digits of the last PS1-marker match of a text as a number, or -1.
LastCode(text) ==
    IF MatchStarts(text) = {} THEN -1
    ELSE LET i == CHOOSE i \in MatchStarts(text) :
                     \A j \in MatchStarts(text) : j <= i
         IN  parse_i64(SubSeq(text, i + Len(PS1_MARKER),
                              MatchEnd(text, i) - 1))

\* C33: the exit code strip_markers_and_extract_exit_code reports is the
\* number written in the last PS1-marker match of the text it keeps, and -1
\* when that text has no such match.
C33_ExitCodeOfLastMatch ==
    rd.pc = "none" /\ calls[1].result # <<>> =>
        calls[1].result[1].exit_code = LastCode(Cleaned(calls[1].text))

\* Of two prompts around an exit marker the second gives the exit code.
C33_Witness ==
    /\ rd.pc = "none"
    /\ calls[1].text = PS1(1) \o EXIT_MARKER \o PS1(0)
    /\ calls[1].result # <<>>
    /\ calls[1].result[1].exit_code = 0


\* C34: a text whose PS1-marker match carries digits that are no i64 still
\* gives a result, with the exit code -1.
C34_OverlongDigitsGiveMinusOne ==
    rd.pc = "none" /\ ~ExitCodesParse(calls[1].text) =>
        /\ calls[1].result # <<>>
        /\ calls[1].result[1].exit_code = -1

\* The guest printed the marker, twenty digits and a colon: the call
\* panicked, returned nothing and left no entry in the trajectory.
C34_ExtractionPanicked ==
    /\ rd.pc = "none"
    /\ calls[1].text = PS1_MARKER \o <<LongDigits, ":">>
    /\ calls[1].err = "panicked"
    /\ calls[1].result = <<>>
    /\ sb[S].trajectory = <<>>


\* C35: the semaphore, the registry lock and the sandbox locks never block
\* each other for good: under every interleaving of the requests and the
\* reaper a request that is not waiting for a permit completes, and a start
\* that waits while a permit is free gets on unless the permit is taken.
C35_NoDeadlock ==
    \A t \in Tasks :
        /\ (pc[t] \notin {"idle", "start_acquire"}) ~> (pc[t] = "idle")
        /\ (pc[t] = "start_acquire" /\ semaphore > 0)
              ~> (pc[t] # "start_acquire" \/ semaphore = 0)

\* A start that waited for a permit while the reaper held the registry has
\* completed after a stop released the permit.
C35_Witness ==
    /\ resp.op.kind = "start"
    /\ resp.code = 200
    /\ pc = [t \in Tasks |-> "idle"]
    /\ reaper.passes = MaxReaps
    /\ \E s \in minted : sb[s].status.tag = "Stopped"


\* ------------------------------------------------------------------- C36
StoredPermits == Cardinality({s \in Alive : sb[s].permit})

InFlightPermits == Cardinality({t \in Tasks : holds[t]})

Quiescent ==
    /\ \A t \in Tasks : pc[t] = "idle"
    /\ reaper.pc \notin {"reap_lock", "reap_remove"}

\* C36: permits are conserved: the available permits, the permits stored in
\* sandboxes and the permits in the hands of in-flight starts add up to the
\* capacity; when every sandbox of the registry is Stopped and nothing is in
\* flight, all of them are available.
C36_PermitsConserved ==
    /\ semaphore + StoredPermits + InFlightPermits = max_sandboxes
    /\ (Quiescent /\ \A s \in sandboxes : sb[s].status.tag = "Stopped")
          => semaphore = max_sandboxes

\* A sandbox that stored a permit has been stopped (and with remove = true
\* is out of the registry); nothing is in flight and the permit is back.
C36_Witness ==
    /\ Quiescent
    /\ resp.op.kind = "stop" /\ resp.code = 200
    /\ sb[resp.op.id].status.tag = "Stopped"
    /\ ~sb[resp.op.id].permit
    /\ \A s \in sandboxes : sb[s].status.tag = "Stopped"
    /\ semaphore = max_sandboxes


\* ------------------------------------------------------------------- C37
\* Start handler t returns in this step.
StartReturns(t) ==
    /\ op[t].kind = "start"
    /\ pc[t] \in {"start_lock", "start_create", "start_run", "start_inspect",
                  "start_setup", "start_attach", "start_configure"}
    /\ pc'[t] = "idle"

\* Another start on the same sandbox is in flight and has not yet got the
\* sandbox's guard.
RivalStart(t) ==
    \E u \in Tasks \ {t} :
        /\ op[u].kind = "start"
        /\ op[u].id = op[t].id
        /\ pc[u] \in {"start_acquire", "start_get", "start_lock"}

\* C37: of the concurrent starts on one Created sandbox exactly one goes on
\* to create the container and every other one returns AlreadyStarted: when
\* the start that passed the status check returns, the sandbox is no longer
\* Created, whatever the outcome, so that its rivals are rejected.
C37_OthersAlreadyStarted ==
    [][\A t \in Tasks :
          (StartReturns(t) /\ RivalStart(t) /\ resp'.err # "AlreadyStarted")
             => sb'[op[t].id].status.tag # "Created"]_vars

\* C37: at most one container is ever created for a sandbox and it is
\* created by a start that found the sandbox Created, under the sandbox's
\* guard; a start that finds another status returns AlreadyStarted, creates
\* nothing, changes no sandbox and gives its permit back; a sandbox never
\* becomes Created again. A start that fails before the container exists
\* leaves Created, and a rival may then create the container.
C37_AtMostOneContainer ==
    [][/\ \A s \in minted :
             sb[s].status.tag # "Created" => sb'[s].status.tag # "Created"
       /\ Len(containers') > Len(containers) =>
             \E t \in Tasks :
                /\ pc[t] = "start_create"
                /\ sb[op[t].id].status = Created
                /\ Len(containers') = Len(containers) + 1
                /\ sb'[op[t].id].status = Started(Len(containers'))
                /\ \A s \in Ids \ {op[t].id} :
                      sb'[s].status.cid # Len(containers')
       /\ \A t \in Tasks :
             (pc[t] = "start_lock" /\ pc'[t] # "start_lock"
                 /\ sb[op[t].id].status.tag # "Created")
                => /\ pc'[t] = "idle"
                   /\ resp'.err = "AlreadyStarted"
                   /\ resp'.code = 400
                   /\ holds[t] /\ ~holds'[t]
                   /\ semaphore' = semaphore + 1 + ArcDrop(t, Held(t))
                   /\ UNCHANGED <<sb, containers>>]_vars

\* With two permits, two starts of the one sandbox ran side by side, each
\* with a permit of its own: the first took the sandbox's guard and
\* started the sandbox, the second, served by the second task, got the
\* guard after it, was rejected and gave its permit back.
C37_Witness ==
    /\ max_sandboxes = 2
    /\ resp.op.kind = "start" /\ resp.err = "AlreadyStarted"
    /\ resp.task = 2
    /\ nreq = 3
    /\ Cardinality(minted) = 1
    /\ Len(containers) = 1
    /\ sb[resp.op.id].permit
    /\ sb[resp.op.id].status = Started(1)
    /\ semaphore = 1
    /\ \A t \in Tasks : ~holds[t] /\ pc[t] = "idle"


\* ------------------------------------------------------------------- C38
\* Stop handler t takes a step of Sandbox::stop.
StopStep(t) ==
    /\ pc[t] \in {"stop_lock", "stop_remove"}
    /\ pc'[t] # pc[t]

\* C38: stop changes only the status, the permit and the streams of its
\* sandbox: trajectory, last_standalone_exit_code and start_time stay, and
\* no other sandbox changes; get_trajectory answers with the trajectory the
\* sandbox has, and list reports the trajectory's length and the exit code
\* it has, in every status.
C38_StopKeepsTrajectory ==
    [][\A t \in Tasks :
          /\ StopStep(t) =>
                /\ sb'[op[t].id].trajectory = sb[op[t].id].trajectory
                /\ sb'[op[t].id].last_standalone_exit_code
                      = sb[op[t].id].last_standalone_exit_code
                /\ sb'[op[t].id].start_time = sb[op[t].id].start_time
                /\ \A s \in Ids \ {op[t].id} : sb'[s] = sb[s]
          /\ (pc[t] = "traj_read" /\ pc'[t] = "idle") =>
                /\ resp'.code = 200
                /\ resp'.body = <<Len(sb[op[t].id].trajectory),
                                  sb[op[t].id].trajectory>>
          /\ (pc[t] = "list_read" /\ snap'[t] # snap[t]) =>
                \E s \in snap[t] :
                   \E i \in infos'[t] \ infos[t] :
                      /\ i.id = s
                      /\ i.session_command_count = Len(sb[s].trajectory)
                      /\ i.last_standalone_exit_code
                            = sb[s].last_standalone_exit_code]_vars

\* A sandbox whose setup commands left the exit code 0 was stopped and kept;
\* list reports it as stopped with that exit code.
C38_Witness ==
    /\ resp.op.kind = "list" /\ resp.code = 200
    /\ \E i \in resp.body :
          /\ sb[i.id].status.tag = "Stopped"
          /\ i.status = StatusToString(Stopped)
          /\ i.last_standalone_exit_code = <<0>>
          /\ i.id \in sandboxes


\* ------------------------------------------------------------------- C40
\* C40: when a stop with remove = true returns, whatever it answers, the
\* registry has no entry for its id; the entry is taken out before the
\* sandbox is locked and stopped.
C40_RemoveWhateverStopReturns ==
    [][\A t \in Tasks :
          /\ (op[t].kind = "stop" /\ op[t].flag
                 /\ pc[t] # "idle" /\ pc'[t] = "idle")
                => op[t].id \notin sandboxes'
          /\ (op[t].kind = "stop" /\ op[t].flag
                 /\ pc[t] = "stop_get" /\ pc'[t] = "stop_lock")
                => /\ op[t].id \in sandboxes
                   /\ sandboxes' = sandboxes \ {op[t].id}]_vars

\* A stop with remove = true on a sandbox that was never started is
\* answered 400 NotStarted, and the sandbox is out of the registry.
C40_Witness ==
    /\ resp.op.kind = "stop" /\ resp.op.flag
    /\ resp.code = 400 /\ resp.err = "NotStarted"
    /\ resp.op.id \in minted \ sandboxes
    /\ sb[resp.op.id].status.tag = "Created"


\* ------------------------------------------------------------------- C39
\* Every symbol of a occurs in b, in the same order.
RECURSIVE IsSubseq(_, _)
IsSubseq(a, b) ==
    IF a = <<>> THEN TRUE
    ELSE IF b = <<>> THEN FALSE
    ELSE IF a[1] = b[1] THEN IsSubseq(Tail(a), Tail(b))
    ELSE IsSubseq(a, Tail(b))

\* The read of call i has returned its buffer in this step.
TextHandedOver(i) ==
    /\ i = Len(calls)
    /\ rd.pc = "read" /\ rd'.pc = "none"
    /\ calls'[i].err \in {"", "panicked"}

\* C39: the text handed to strip_markers_and_extract_exit_code has, in
\* order, everything the shell has printed for the command since it was
\* written, also what arrived during a read attempt that timed out.
C39_NoOutputDropped ==
    [][\A i \in 1..Len(calls) :
          TextHandedOver(i) =>
             IsSubseq(strip_str(calls'[i].real_out), calls'[i].text)]_vars

\* The first call of the session printed its working directory and went on
\* running; the first read timed out, the read after the newline returned,
\* and the text it returned has none of what the command printed.
C39_TimedOutTextLost ==
    /\ Len(calls) = 1
    /\ calls[1].cmd = <<"pwd; sleep 3">>
    /\ calls[1].timed_out
    /\ calls[1].result # <<>>
    /\ calls[1].real_out = <<"/">> \o CRLF
    /\ Find(calls[1].text, <<"/">>) = 0
    /\ calls[1].result[1].output = <<>>

====
